---- MODULE Spec2Model ----
(***************************************************************************)
(* State-machine model of the autonomous-world-model on-chain programs:    *)
(*   - programs/world-model         (sessions + weight upload, monolith)   *)
(*   - programs-ecs/systems/*       (session-lifecycle, submit-input,      *)
(*                                   run-inference BOLT systems)           *)
(*   - programs/upload-weights      (chunked weight upload)                *)
(* Every instruction handler is one atomic action.  A handler that returns *)
(* an error leaves every account as it was; the error name is recorded in  *)
(* the history variable `last`.                                            *)
(***************************************************************************)
EXTENDS Integers, Sequences, FiniteSets, TLC

\* ------------------------------------------------------------------------
\* Bounds of the exploration
\* ------------------------------------------------------------------------
MaxFrame == 2          \* run_inference is explored while session.frame < MaxFrame
MaxChunkLen == 1       \* ordinary chunks carry 0..MaxChunkLen bytes
MaxOffset == 1         \* chunk offsets 0..MaxOffset
MaxPairFrame == 1      \* frame bound when two sessions run side by side
MaxRows == 2           \* matmul_i8: rows 1..MaxRows
MaxCols == 5           \* matmul_i8: cols 0..MaxCols
MaxDInner == 4         \* selective_scan_step: d_inner 1..MaxDInner
MaxDState == 2         \* selective_scan_step: d_state 1..MaxDState
MaxN == 2              \* requantize: n 1..MaxN elements
MaxLayers == 2         \* forward pass: num_layers 1..MaxLayers
MaxWidth == 2          \* forward pass: d_model and d_inner 1..MaxWidth
MaxLanes == 3           \* interleaved scan: channels 1..MaxLanes

\* ------------------------------------------------------------------------
\* Program constants
\* ------------------------------------------------------------------------
STATUS_CREATED == 0
STATUS_WAITING_PLAYERS == 1
STATUS_ACTIVE == 2
STATUS_ENDED == 3
ACTION_CREATE == 0
ACTION_JOIN == 1
ACTION_END == 2
MAX_CHUNK_SIZE == 1000
RING_BUFFER_SIZE == 256

\* ------------------------------------------------------------------------
\* Identities, accounts and instruction arguments
\* ------------------------------------------------------------------------
DefaultKey == "default"                  \* Pubkey::default()
Signers == {"alice", "bob", "carol"}     \* keys that sign or are passed as player
Creators == {"alice"}                    \* who opens sessions in the exploration
SessionIds == {"A", "B"}                 \* session / input / hidden / log accounts
SoloSessions == {"A"}                    \* the session explored on its own
ManifestIds == {"M", "N"}                \* manifest accounts
SoloManifests == {"M"}                   \* the manifest of the single deployment
ShardIds == {1, 2}
Bytes == {0, 1}
BigShardSize == MAX_CHUNK_SIZE + 1
\* declared sizes of the shards of a deployment (0: no such shard):
\* two small shards, or one shard that takes a maximal chunk
Layouts == {<<2, 1>>, <<0, BigShardSize>>}
MaxFramesArgs == {1}
ModelDims == [num_layers |-> 2, d_inner |-> 2, d_state |-> 2, d_model |-> 2]
\* the dimensions of a second, smaller model
SmallDims == [num_layers |-> 1, d_inner |-> 1, d_state |-> 1, d_model |-> 1]
\* the dimensions each manifest account is initialised with
ManifestDims == [m \in ManifestIds |-> IF m = "M" THEN ModelDims ELSE SmallDims]

Scopes == {"world_model_session", "ecs_session",
           "world_model_weights", "upload_weights"}
\* two sessions side by side, every instruction free to name the accounts
\* of either
PairScopes == {"world_model_pair", "ecs_pair"}
\* one session and two manifests of different dimensions
ShapeScopes == {"world_model_shape"}
WorldModelSessionScopes ==
    {"world_model_session", "world_model_pair", "world_model_shape"}
EcsSessionScopes == {"ecs_session", "ecs_pair"}

VARIABLES
    scope,          \* which program / instruction group this deployment runs
    session,        \* SessionState accounts
    input_buffer,   \* InputBuffer accounts
    hidden_state,   \* HiddenState headers
    frame_log,      \* FrameLog headers (ECS only)
    manifest,       \* ModelManifest accounts
    shard,          \* weight shard headers (NoShard while not allocated)
    shard_data,     \* weight shard data regions (bytes past the header)
    written,        \* history: offsets of a data region written by accepted chunks
    faithful,       \* history: every accepted chunk on the shard carried TargetBlob bytes
    high_end,       \* history: greatest offset + len of the chunks accepted on a header
    kernel,         \* the numeric kernel call under test: arguments and results
    fresh,          \* history: players with an accepted submit_input since the last frame
    last            \* history: the last instruction, its arguments and its result

vars == <<scope, session, input_buffer, hidden_state, frame_log, manifest,
          shard, shard_data, written, faithful, high_end, kernel, fresh, last>>

sessionVars == <<session, input_buffer, hidden_state, frame_log, manifest, fresh>>
uploadVars == <<shard, shard_data, written, faithful, high_end>>
\* everything but `kernel`
programVars == <<scope, sessionVars, uploadVars, last>>

\* ------------------------------------------------------------------------
\* Account contents
\* ------------------------------------------------------------------------
DefaultPlayerState ==
    [x |-> 0, y |-> 0, percent |-> 0, shield_strength |-> 0,
     speed_air_x |-> 0, speed_y |-> 0, speed_ground_x |-> 0,
     speed_attack_x |-> 0, speed_attack_y |-> 0, state_age |-> 0,
     hitlag |-> 0, stocks |-> 0, facing |-> 0, on_ground |-> 0,
     action_state |-> 0, jumps_left |-> 0, character |-> 0]

\* `disc` is the 8-byte Anchor discriminator: FALSE while the account is zeroed.
DefaultSessionState ==
    [disc |-> FALSE, status |-> 0, frame |-> 0, max_frames |-> 0,
     player1 |-> DefaultKey, player2 |-> DefaultKey, stage |-> 0,
     players |-> <<DefaultPlayerState, DefaultPlayerState>>,
     model |-> DefaultKey, created_at |-> 0, last_update |-> 0, seed |-> 0]

NeutralInput ==
    [stick_x |-> 0, stick_y |-> 0, c_stick_x |-> 0, c_stick_y |-> 0,
     trigger_l |-> 0, trigger_r |-> 0, buttons |-> 0, buttons_ext |-> 0]

JumpLeftInput ==
    [stick_x |-> -20, stick_y |-> 3, c_stick_x |-> 0, c_stick_y |-> 0,
     trigger_l |-> 0, trigger_r |-> 0, buttons |-> 1, buttons_ext |-> 0]

Controllers == {NeutralInput, JumpLeftInput}

DefaultInputBuffer ==
    [disc |-> FALSE, frame |-> 0, player1 |-> NeutralInput,
     player2 |-> NeutralInput, p1_ready |-> FALSE, p2_ready |-> FALSE]

DefaultHiddenState ==
    [num_layers |-> 0, d_inner |-> 0, d_state |-> 0, data_size |-> 0,
     frame |-> 0, initialized |-> FALSE]

\* `frames` is the ring-buffer region behind the header: the slots that have
\* been written (every other slot still holds the zeroed entry)
DefaultFrameLog ==
    [write_index |-> 0, total_frames |-> 0, session |-> DefaultKey,
     frames |-> << >>]

DefaultManifest ==
    [disc |-> FALSE, d_model |-> 0, d_inner |-> 0, d_state |-> 0,
     num_layers |-> 0, num_shards |-> 0, authority |-> DefaultKey, ready |-> FALSE]

ZeroHash == <<"zero">>                   \* [0u8; 32]

\* A shard account that has not been created yet
NoShard ==
    [allocated |-> FALSE, shard_index |-> 0, data_size |-> 0,
     authority |-> DefaultKey, finalized |-> FALSE, data_hash |-> ZeroHash,
     bytes_written |-> 0]

\* Result of a handler: the error name ("Ok" on success)
Ok == "Ok"


\* The instruction recorded in `last`
\* (`sample` is the controller sample an accepted submit_input wrote)
NoCall ==
    [op |-> "none", err |-> Ok, acct |-> "-", key |-> "-",
     shard |-> -1, data |-> -1, match |-> FALSE, sample |-> NeutralInput]

\* No kernel has been called
NoKernel == [op |-> "none"]

SessionCall(op, err, s, key) ==
    [NoCall EXCEPT !.op = op, !.err = err, !.acct = s, !.key = key]

SubmitCall(err, s, key, controller) ==
    [SessionCall("submit_input", err, s, key) EXCEPT
        !.sample = IF err = Ok THEN controller ELSE NeutralInput]

UploadCall(op, err, key, h, d, match) ==
    [NoCall EXCEPT !.op = op, !.err = err, !.key = key, !.shard = h,
                   !.data = d, !.match = match]

\* ========================================================================
\* world-model program: session instructions
\* ========================================================================

\* #[account(zero)]: the discriminator must still be zero
account_zero(acct) == ~acct.disc

\* Account<'info, T>: the discriminator of T must be present
account_loaded(acct) == acct.disc

\* write_hidden_header
write_hidden_header(num_layers, d_inner, d_state, data_size, frame, initialized) ==
    [num_layers |-> num_layers, d_inner |-> d_inner, d_state |-> d_state,
     data_size |-> data_size, frame |-> frame, initialized |-> initialized]

\* init_manifest: `init` creates the account, so it runs once per manifest
init_manifest(m, authority, dims) ==
    /\ scope \in WorldModelSessionScopes
    /\ ~manifest[m].disc
    /\ manifest' = [manifest EXCEPT ![m] =
           [disc |-> TRUE, d_model |-> dims.d_model,
            d_inner |-> dims.d_inner, d_state |-> dims.d_state,
            num_layers |-> dims.num_layers, num_shards |-> 0,
            authority |-> authority, ready |-> FALSE]]
    /\ last' = SessionCall("init_manifest", Ok, m, authority)
    /\ UNCHANGED <<scope, session, input_buffer, hidden_state, frame_log, fresh>>
    /\ UNCHANGED uploadVars
    /\ UNCHANGED kernel

\* Account validation of CreateSession, in field order
CreateSessionAccounts(sess, ib, mf) ==
    IF ~account_zero(sess) THEN "ConstraintZero"
    ELSE IF ~account_zero(ib) THEN "ConstraintZero"
    ELSE IF ~account_loaded(mf) THEN "AccountDiscriminatorMismatch"
    ELSE Ok

wm_create_session(s, hs, ib, m, player1, stage, character, max_frames, seed) ==
    LET err == CreateSessionAccounts(session[s], input_buffer[ib], manifest[m])
        mf == manifest[m]
        data_size == mf.num_layers * mf.d_inner * mf.d_state
    IN
    /\ scope \in WorldModelSessionScopes
    /\ last' = SessionCall("create", err, s, player1)
    /\ IF err = Ok
       THEN /\ session' = [session EXCEPT ![s] =
                   [@ EXCEPT !.disc = TRUE,
                             !.status = STATUS_WAITING_PLAYERS,
                             !.frame = 0,
                             !.max_frames = max_frames,
                             !.player1 = player1,
                             !.player2 = DefaultKey,
                             !.stage = stage,
                             !.model = m,
                             !.seed = seed,
                             !.players[1] = [DefaultPlayerState EXCEPT
                                               !.character = character,
                                               !.stocks = 4]]]
            /\ hidden_state' = [hidden_state EXCEPT ![hs] =
                   write_hidden_header(mf.num_layers, mf.d_inner, mf.d_state,
                                       data_size, 0, FALSE)]
            /\ input_buffer' = [input_buffer EXCEPT ![ib] =
                   [@ EXCEPT !.disc = TRUE, !.frame = 0,
                             !.p1_ready = FALSE, !.p2_ready = FALSE]]
            /\ fresh' = [fresh EXCEPT ![s] = {}]
       ELSE UNCHANGED <<session, hidden_state, input_buffer, fresh>>
    /\ UNCHANGED <<scope, frame_log, manifest>>
    /\ UNCHANGED uploadVars
    /\ UNCHANGED kernel

\* Starting positions written by join (FD defaults)
StartPlayers(players) ==
    [players EXCEPT
        ![1].x = -30 * 256, ![1].y = 0, ![1].facing = 1, ![1].on_ground = 1,
        ![1].jumps_left = 2, ![1].shield_strength = 60 * 256,
        ![2].x = 30 * 256, ![2].y = 0, ![2].facing = 0, ![2].on_ground = 1,
        ![2].jumps_left = 2, ![2].shield_strength = 60 * 256]

\* variant: join writes fresh records for both players
JoinedSession_mut(sess, player2, character) ==
    [sess EXCEPT
        !.player2 = player2,
        !.players = StartPlayers(
                        <<[DefaultPlayerState EXCEPT !.stocks = 4],
                          [DefaultPlayerState EXCEPT !.character = character,
                                                     !.stocks = 4]>>),
        !.status = STATUS_ACTIVE]

\* Body shared by both join_session implementations (same statements)
JoinedSession(sess, player2, character) ==
    [sess EXCEPT
        !.player2 = player2,
        !.players = StartPlayers([sess.players EXCEPT ![2] =
                        [DefaultPlayerState EXCEPT !.character = character,
                                                   !.stocks = 4]]),
        !.status = STATUS_ACTIVE]

\* variant: join refuses only a session that is already Active
join_require_status_mut(status) == status # STATUS_ACTIVE

\* require!(session.status == STATUS_WAITING_PLAYERS, ..)
join_require_status(status) == status = STATUS_WAITING_PLAYERS

\* variant: anyone may join, the creator included
join_require_other_mut(player2, player1) == TRUE

\* require!(player2 != session.player1, ..)
join_require_other(player2, player1) == player2 # player1

\* variant: the identity check comes before the status check
join_session_result_mut(sess, player2) ==
    IF ~join_require_other(player2, sess.player1) THEN "CannotJoinOwnSession"
    ELSE IF ~join_require_status(sess.status) THEN "InvalidStateTransition"
    ELSE Ok

join_session_result(sess, player2) ==
    IF ~join_require_status(sess.status) THEN "InvalidStateTransition"
    ELSE IF ~join_require_other(player2, sess.player1) THEN "CannotJoinOwnSession"
    ELSE Ok

wm_join_session(s, player2, character) ==
    LET err == IF ~account_loaded(session[s]) THEN "AccountDiscriminatorMismatch"
               ELSE join_session_result(session[s], player2)
    IN
    /\ scope \in WorldModelSessionScopes
    /\ last' = SessionCall("join", err, s, player2)
    /\ IF err = Ok
       THEN /\ session' = [session EXCEPT ![s] = JoinedSession(@, player2, character)]
            /\ fresh' = [fresh EXCEPT ![s] = {}]
       ELSE UNCHANGED <<session, fresh>>
    /\ UNCHANGED <<scope, input_buffer, hidden_state, frame_log, manifest>>
    /\ UNCHANGED uploadVars
    /\ UNCHANGED kernel

\* require!(status == STATUS_ACTIVE || status == STATUS_WAITING_PLAYERS, ..)
close_require_status(status) ==
    status = STATUS_ACTIVE \/ status = STATUS_WAITING_PLAYERS

\* require!(player_key == session.player1 || player_key == session.player2, ..)
is_participant(key, sess) == key = sess.player1 \/ key = sess.player2

close_session_result(sess, player) ==
    IF ~close_require_status(sess.status) THEN "InvalidStateTransition"
    ELSE IF ~is_participant(player, sess) THEN "UnauthorizedPlayer"
    ELSE Ok

\* variant: the status is written as soon as the status check has passed,
\* and stays written when the participant check then fails
wm_close_session_mut(s, player) ==
    LET err == IF ~account_loaded(session[s]) THEN "AccountDiscriminatorMismatch"
               ELSE close_session_result(session[s], player)
    IN
    /\ scope \in WorldModelSessionScopes
    /\ last' = SessionCall("close", err, s, player)
    /\ IF err \in {Ok, "UnauthorizedPlayer"}
       THEN session' = [session EXCEPT ![s].status = STATUS_ENDED]
       ELSE UNCHANGED session
    /\ UNCHANGED <<scope, input_buffer, hidden_state, frame_log, manifest, fresh>>
    /\ UNCHANGED uploadVars
    /\ UNCHANGED kernel

wm_close_session(s, player) ==
    LET err == IF ~account_loaded(session[s]) THEN "AccountDiscriminatorMismatch"
               ELSE close_session_result(session[s], player)
    IN
    /\ scope \in WorldModelSessionScopes
    /\ last' = SessionCall("close", err, s, player)
    /\ IF err = Ok
       THEN session' = [session EXCEPT ![s].status = STATUS_ENDED]
       ELSE UNCHANGED session
    /\ UNCHANGED <<scope, input_buffer, hidden_state, frame_log, manifest, fresh>>
    /\ UNCHANGED uploadVars
    /\ UNCHANGED kernel


\* variant: a new pending frame number clears the other player's flag but
\* the record keeps its old frame tag
SubmittedBuffer_stale(ib, is_p1, controller, session_frame) ==
    LET w == IF is_p1
             THEN [ib EXCEPT !.player1 = controller, !.p1_ready = TRUE]
             ELSE [ib EXCEPT !.player2 = controller, !.p2_ready = TRUE]
        expected_frame == session_frame + 1
    IN  IF w.frame # expected_frame
        THEN IF is_p1
             THEN [w EXCEPT !.p2_ready = FALSE]
             ELSE [w EXCEPT !.p1_ready = FALSE]
        ELSE w

\* variant: on a new pending frame number both ready flags are cleared
SubmittedBuffer_mut(ib, is_p1, controller, session_frame) ==
    LET w == IF is_p1
             THEN [ib EXCEPT !.player1 = controller, !.p1_ready = TRUE]
             ELSE [ib EXCEPT !.player2 = controller, !.p2_ready = TRUE]
        expected_frame == session_frame + 1
    IN  IF w.frame # expected_frame
        THEN [w EXCEPT !.frame = expected_frame, !.p1_ready = FALSE,
                       !.p2_ready = FALSE]
        ELSE w

\* Body shared by both submit_input implementations (same statements):
\* write the caller's slot, set its flag, and on a new pending frame number
\* retag the record and clear the other player's flag.
SubmittedBuffer(ib, is_p1, controller, session_frame) ==
    LET w == IF is_p1
             THEN [ib EXCEPT !.player1 = controller, !.p1_ready = TRUE]
             ELSE [ib EXCEPT !.player2 = controller, !.p2_ready = TRUE]
        expected_frame == session_frame + 1
    IN  IF w.frame # expected_frame
        THEN IF is_p1
             THEN [w EXCEPT !.frame = expected_frame, !.p2_ready = FALSE]
             ELSE [w EXCEPT !.frame = expected_frame, !.p1_ready = FALSE]
        ELSE w

\* require!(session.status == STATUS_ACTIVE, ..)
require_active(status) == status = STATUS_ACTIVE

\* variant: the participant check comes before the status check
submit_input_result_mut(sess, player) ==
    IF ~is_participant(player, sess) THEN "UnauthorizedPlayer"
    ELSE IF ~require_active(sess.status) THEN "SessionNotActive"
    ELSE Ok

submit_input_result(sess, player) ==
    IF ~require_active(sess.status) THEN "SessionNotActive"
    ELSE IF ~is_participant(player, sess) THEN "UnauthorizedPlayer"
    ELSE Ok

\* The slot an accepted submit_input is attributed to
SlotOf(sess, player) == IF player = sess.player1 THEN 1 ELSE 2

wm_submit_input(s, ib, player, controller) ==
    LET err == IF ~account_loaded(session[s]) \/ ~account_loaded(input_buffer[ib])
               THEN "AccountDiscriminatorMismatch"
               ELSE submit_input_result(session[s], player)
    IN
    /\ scope \in WorldModelSessionScopes
    /\ last' = SubmitCall(err, s, player, controller)
    /\ IF err = Ok
       THEN /\ input_buffer' = [input_buffer EXCEPT ![ib] =
                   SubmittedBuffer(@, player = session[s].player1, controller,
                                   session[s].frame)]
            /\ fresh' = [fresh EXCEPT ![s] = @ \cup {SlotOf(session[s], player)}]
       ELSE UNCHANGED <<input_buffer, fresh>>
    /\ UNCHANGED <<scope, session, hidden_state, frame_log, manifest>>
    /\ UNCHANGED uploadVars
    /\ UNCHANGED kernel

\* Exploration bound on the frame counter
FrameCap == IF scope \in PairScopes THEN MaxPairFrame ELSE MaxFrame

\* u16::saturating_add(1), u8::saturating_sub(1)
saturating_add_u16(v) == IF v >= 65535 THEN 65535 ELSE v + 1
saturating_sub_u8(v) == IF v <= 0 THEN 0 ELSE v - 1
clamp(v, lo, hi) == IF v < lo THEN lo ELSE IF v > hi THEN hi ELSE v

\* One player's placeholder physics update (identical in both programs)
StubPlayerStep(p, input) ==
    LET stick_x == input.stick_x
        stick_y == input.stick_y
        moved == [p EXCEPT !.x = @ + stick_x * 2, !.y = @ + stick_y * 2]
        fallen ==
            IF moved.on_ground = 0
            THEN LET speed_y == moved.speed_y - 4
                     y == moved.y + speed_y
                 IN  IF y <= 0
                     THEN [moved EXCEPT !.y = 0, !.speed_y = 0, !.on_ground = 1]
                     ELSE [moved EXCEPT !.y = y, !.speed_y = speed_y]
            ELSE moved
        jumped ==
            IF input.buttons % 2 = 1 /\ fallen.jumps_left > 0
            THEN [fallen EXCEPT !.speed_y = 40, !.on_ground = 0,
                                !.jumps_left = saturating_sub_u8(@)]
            ELSE fallen
        faced ==
            IF stick_x > 10 THEN [jumped EXCEPT !.facing = 1]
            ELSE IF stick_x < -10 THEN [jumped EXCEPT !.facing = 0]
            ELSE jumped
    IN  [faced EXCEPT !.speed_ground_x = clamp(stick_x * 2, -32767, 32767),
                      !.state_age = saturating_add_u16(@)]

\* variant: the session is ended when the frame counter reaches max_frames
StubInference_mut(sess, ib) ==
    [sess EXCEPT !.players = <<StubPlayerStep(sess.players[1], ib.player1),
                               StubPlayerStep(sess.players[2], ib.player2)>>,
                 !.frame = sess.frame + 1,
                 !.status = IF sess.max_frames > 0 /\ sess.frame + 1 >= sess.max_frames
                            THEN STATUS_ENDED ELSE sess.status]

StubInference(sess, ib) ==
    [sess EXCEPT !.players = <<StubPlayerStep(sess.players[1], ib.player1),
                               StubPlayerStep(sess.players[2], ib.player2)>>,
                 !.frame = sess.frame + 1]

\* require!(input_buf.p1_ready && input_buf.p2_ready, ..)
require_inputs_ready(ib) == ib.p1_ready /\ ib.p2_ready

\* variant: the readiness check comes before the status check
run_inference_result_mut(sess, ib) ==
    IF ~require_inputs_ready(ib) THEN "InputsNotReady"
    ELSE IF ~require_active(sess.status) THEN "SessionNotActive"
    ELSE Ok

run_inference_result(sess, ib) ==
    IF ~require_active(sess.status) THEN "SessionNotActive"
    ELSE IF ~require_inputs_ready(ib) THEN "InputsNotReady"
    ELSE Ok

\* The manifest and weights accounts are passed but never read by the handler
\* (`last` records the manifest account under `key`).
wm_run_inference(s, hs, ib, m) ==
    LET err == IF ~account_loaded(session[s]) \/ ~account_loaded(input_buffer[ib])
                  \/ ~account_loaded(manifest[m])
               THEN "AccountDiscriminatorMismatch"
               ELSE run_inference_result(session[s], input_buffer[ib])
    IN
    /\ scope \in WorldModelSessionScopes
    /\ err = Ok => session[s].frame < FrameCap
    /\ last' = SessionCall("run_inference", err, s, m)
    /\ IF err = Ok
       THEN /\ session' = [session EXCEPT ![s] = StubInference(@, input_buffer[ib])]
            /\ hidden_state' = [hidden_state EXCEPT ![hs].frame = session[s].frame + 1]
            /\ fresh' = [fresh EXCEPT ![s] = {}]
       ELSE UNCHANGED <<session, hidden_state, fresh>>
    /\ UNCHANGED <<scope, input_buffer, frame_log, manifest>>
    /\ UNCHANGED uploadVars
    /\ UNCHANGED kernel

\* ========================================================================
\* ECS systems: session-lifecycle, submit-input, run-inference
\* ========================================================================

\* variant: create is refused only on an Active session
ecs_create_session_result_mut(sess) ==
    IF sess.status # STATUS_ACTIVE THEN Ok ELSE "InvalidStateTransition"

ecs_create_session_result(sess) ==
    IF sess.status = STATUS_CREATED \/ sess.status = 0 THEN Ok
    ELSE "InvalidStateTransition"

\* end_session checks the status only (no caller is passed to it)
end_session_result(sess) ==
    IF close_require_status(sess.status) THEN Ok ELSE "InvalidStateTransition"

session_lifecycle_result(action, sess, player) ==
    IF action = ACTION_CREATE THEN ecs_create_session_result(sess)
    ELSE IF action = ACTION_JOIN THEN join_session_result(sess, player)
    ELSE IF action = ACTION_END THEN end_session_result(sess)
    ELSE "InvalidAction"

LifecycleOp(action) ==
    IF action = ACTION_CREATE THEN "create"
    ELSE IF action = ACTION_JOIN THEN "join"
    ELSE IF action = ACTION_END THEN "close"
    ELSE "invalid"

session_lifecycle_execute(s, hs, fl, action, player, character, stage, model, max_frames, seed) ==
    LET err == session_lifecycle_result(action, session[s], player)
        data_size == ModelDims.num_layers * ModelDims.d_inner * ModelDims.d_state
    IN
    /\ scope \in EcsSessionScopes
    /\ last' = SessionCall(LifecycleOp(action), err, s, player)
    /\ IF err # Ok
       THEN UNCHANGED <<session, hidden_state, frame_log, fresh>>
       ELSE IF action = ACTION_CREATE
       THEN /\ session' = [session EXCEPT ![s] =
                   [@ EXCEPT !.status = STATUS_WAITING_PLAYERS,
                             !.frame = 0,
                             !.max_frames = max_frames,
                             !.player1 = player,
                             !.player2 = DefaultKey,
                             !.stage = stage,
                             !.model = model,
                             !.seed = seed,
                             !.players[1] = [DefaultPlayerState EXCEPT
                                               !.character = character,
                                               !.stocks = 4]]]
            /\ hidden_state' = [hidden_state EXCEPT ![hs] =
                   [@ EXCEPT !.num_layers = ModelDims.num_layers,
                             !.d_inner = ModelDims.d_inner,
                             !.d_state = ModelDims.d_state,
                             !.data_size = data_size,
                             !.frame = 0,
                             !.initialized = FALSE]]
            /\ frame_log' = [frame_log EXCEPT ![fl] =
                   [@ EXCEPT !.write_index = 0, !.total_frames = 0]]
            /\ fresh' = [fresh EXCEPT ![s] = {}]
       ELSE IF action = ACTION_JOIN
       THEN /\ session' = [session EXCEPT ![s] = JoinedSession(@, player, character)]
            /\ fresh' = [fresh EXCEPT ![s] = {}]
            /\ UNCHANGED <<hidden_state, frame_log>>
       ELSE /\ session' = [session EXCEPT ![s].status = STATUS_ENDED]
            /\ UNCHANGED <<hidden_state, frame_log, fresh>>
    /\ UNCHANGED <<scope, input_buffer, manifest>>
    /\ UNCHANGED uploadVars
    /\ UNCHANGED kernel

submit_input_execute(s, ib, player, controller) ==
    LET err == submit_input_result(session[s], player)
    IN
    /\ scope \in EcsSessionScopes
    /\ last' = SubmitCall(err, s, player, controller)
    /\ IF err = Ok
       THEN /\ input_buffer' = [input_buffer EXCEPT ![ib] =
                   SubmittedBuffer(@, player = session[s].player1, controller,
                                   session[s].frame)]
            /\ fresh' = [fresh EXCEPT ![s] = @ \cup {SlotOf(session[s], player)}]
       ELSE UNCHANGED <<input_buffer, fresh>>
    /\ UNCHANGED <<scope, session, hidden_state, frame_log, manifest>>
    /\ UNCHANGED uploadVars
    /\ UNCHANGED kernel

\* Rust integer division (truncates toward zero) and narrowing `as` casts
TruncDiv(a, b) == IF a >= 0 THEN a \div b ELSE -((-a) \div b)
as_i16(v) == ((v + 32768) % 65536) - 32768
as_i8(v) == ((v + 128) % 256) - 128
as_u8(v) == v % 256
min(a, b) == IF a < b THEN a ELSE b

\* A u32 word is held as its two 16-bit halves <<high, low>>
\* (the value is high * 65536 + low)
u32_word(high, low) == <<high, low>>

\* CompressedFrame::default()
DefaultCompressedFrame ==
    [frame |-> 0,
     p1_x |-> 0, p1_y |-> 0, p1_percent |-> 0, p1_action_state |-> 0,
     p1_state_age |-> 0, p1_stocks |-> 0, p1_facing |-> 0, p1_on_ground |-> 0,
     p1_speed_x |-> 0, p1_speed_y |-> 0,
     p2_x |-> 0, p2_y |-> 0, p2_percent |-> 0, p2_action_state |-> 0,
     p2_state_age |-> 0, p2_stocks |-> 0, p2_facing |-> 0, p2_on_ground |-> 0,
     p2_speed_x |-> 0, p2_speed_y |-> 0,
     p1_input_packed |-> u32_word(0, 0), p2_input_packed |-> u32_word(0, 0),
     stage |-> 0]

\* variant: the sticks are widened as signed values
pack_input_mut(input) ==
    u32_word(input.stick_x * 256 + input.stick_y,
             input.c_stick_x * 256 + input.buttons)

\* (stick_x as u8) << 24 | (stick_y as u8) << 16 | (c_stick_x as u8) << 8 | buttons
pack_input(input) ==
    u32_word(as_u8(input.stick_x) * 256 + as_u8(input.stick_y),
             as_u8(input.c_stick_x) * 256 + input.buttons)

compress_frame(frame, players, stage, input) ==
    LET p1 == players[1]
        p2 == players[2]
    IN  [frame |-> frame,
         p1_x |-> as_i16(TruncDiv(p1.x, 256)),
         p1_y |-> as_i16(TruncDiv(p1.y, 256)),
         p1_percent |-> p1.percent,
         p1_action_state |-> p1.action_state,
         p1_state_age |-> as_u8(min(p1.state_age, 255)),
         p1_stocks |-> p1.stocks,
         p1_facing |-> p1.facing,
         p1_on_ground |-> p1.on_ground,
         p1_speed_x |-> as_i8(clamp(TruncDiv(p1.speed_ground_x, 4), -128, 127)),
         p1_speed_y |-> as_i8(clamp(TruncDiv(p1.speed_y, 4), -128, 127)),
         p2_x |-> as_i16(TruncDiv(p2.x, 256)),
         p2_y |-> as_i16(TruncDiv(p2.y, 256)),
         p2_percent |-> p2.percent,
         p2_action_state |-> p2.action_state,
         p2_state_age |-> as_u8(min(p2.state_age, 255)),
         p2_stocks |-> p2.stocks,
         p2_facing |-> p2.facing,
         p2_on_ground |-> p2.on_ground,
         p2_speed_x |-> as_i8(clamp(TruncDiv(p2.speed_ground_x, 4), -128, 127)),
         p2_speed_y |-> as_i8(clamp(TruncDiv(p2.speed_y, 4), -128, 127)),
         p1_input_packed |-> pack_input(input.player1),
         p2_input_packed |-> pack_input(input.player2),
         stage |-> stage]

\* The entry held by a ring-buffer slot
SlotAt(fl, i) == IF i \in DOMAIN fl.frames THEN fl.frames[i] ELSE DefaultCompressedFrame

\* Ring-buffer metadata update; the entry itself is not stored by the handler.
AppendedLog(fl, frame) ==
    LET write_idx == fl.write_index % RING_BUFFER_SIZE
    IN  [fl EXCEPT !.write_index = (write_idx + 1) % RING_BUFFER_SIZE,
                   !.total_frames = frame]

run_inference_execute(s, hs, ib, fl) ==
    LET err == run_inference_result(session[s], input_buffer[ib])
    IN
    /\ scope \in EcsSessionScopes
    /\ err = Ok => session[s].frame < FrameCap
    /\ last' = SessionCall("run_inference", err, s, "-")
    /\ IF err = Ok
       THEN /\ session' = [session EXCEPT ![s] = StubInference(@, input_buffer[ib])]
            /\ hidden_state' = [hidden_state EXCEPT ![hs].frame = session[s].frame + 1]
            /\ frame_log' = [frame_log EXCEPT ![fl] =
                                AppendedLog(@, session[s].frame + 1)]
            /\ fresh' = [fresh EXCEPT ![s] = {}]
       ELSE UNCHANGED <<session, hidden_state, frame_log, fresh>>
    /\ UNCHANGED <<scope, input_buffer, manifest>>
    /\ UNCHANGED uploadVars
    /\ UNCHANGED kernel


\* ========================================================================
\* Weight upload: upload-weights program and world-model upload instructions
\* ========================================================================

\* 8 + 1 + 4 + 32 + 1 + 32 + 4 (header_size / WEIGHT_HEADER_SIZE)
WEIGHT_HEADER_SIZE == 82

\* Account data is zero-initialised at allocation.  A byte region is held
\* as its length and its nonzero bytes (offset i is index i + 1).
ByteAt(region, i) == IF i \in DOMAIN region.nz THEN region.nz[i] ELSE 0
ZeroRegion(n) == [len |-> n, nz |-> [i \in {} |-> 0]]
FromSeq(seq) ==
    [len |-> Len(seq), nz |-> [i \in {j \in 1..Len(seq) : seq[j] # 0} |-> seq[i]]]

\* solana_program::hash::hash: SHA-256 as a collision-free digest constructor
Hash(region) == <<"sha256", region>>

\* The blob the uploader means to store in a shard of the given size
TargetBlob(size) == [len |-> size, nz |-> [i \in {1} \cap (1..size) |-> 1]]

\* The bytes of the target for [offset, offset + len)
TargetBytes(size, offset, len) ==
    [len |-> len,
     nz |-> [i \in {j \in 1..len : j = 1 - offset /\ size >= 1} |-> 1]]

Uploaders == {"alice", "bob"}
ShardOwner == <<"alice", "bob">>         \* who declared shard 1 and shard 2
Offsets == 0..MaxOffset
SmallChunks == {FromSeq(q) : q \in UNION {[1..n -> Bytes] : n \in 0..MaxChunkLen}}
\* a maximal chunk carrying the target's bytes of a big shard from offset 1 on
TailChunk == TargetBytes(BigShardSize, 1, MAX_CHUNK_SIZE)
\* a chunk one byte longer than MAX_CHUNK_SIZE
OversizedChunk == ZeroRegion(MAX_CHUNK_SIZE + 1)
LongChunks == {TailChunk, OversizedChunk}
Chunks == SmallChunks \cup LongChunks
\* the one-byte chunk a caller other than the authority tries
ProbeChunk == FromSeq(<<1>>)

\* Length of a shard account: the header plus the declared data region
AccountLen(d) == WEIGHT_HEADER_SIZE + shard_data[d].len

\* dest[offset .. offset + len).copy_from_slice(data)
CopyFromSlice(region, offset, data) ==
    LET at(i) == IF offset < i /\ i <= offset + data.len
                 THEN ByteAt(data, i - offset)
                 ELSE ByteAt(region, i)
        touched == DOMAIN region.nz \cup {offset + j : j \in DOMAIN data.nz}
    IN  [len |-> region.len, nz |-> [i \in {j \in touched : at(j) # 0} |-> at(i)]]

\* &account_data[header .. header + n]
Prefix(region, n) ==
    [len |-> n, nz |-> [i \in {j \in DOMAIN region.nz : j <= n} |-> region.nz[i]]]

\* variant: bytes_written follows the last chunk instead of the maximum
HighWater_mut(bytes_written, end) == end

\* shard.bytes_written.max(end)
HighWater(bytes_written, end) == IF end > bytes_written THEN end ELSE bytes_written

\* history: `written` holds the byte ranges <<start, end>> covered by the
\* accepted chunks, as maximal disjoint intervals
Least(S) == CHOOSE x \in S : \A y \in S : x <= y
Greatest(S) == CHOOSE x \in S : \A y \in S : x >= y

AddRange(ranges, start, end) ==
    LET joined == {r \in ranges : r[1] <= end /\ start <= r[2]}
    IN  IF end <= start THEN ranges
        ELSE (ranges \ joined)
             \cup {<<Least({start} \cup {r[1] : r \in joined}),
                     Greatest({end} \cup {r[2] : r \in joined})>>}

IsWritten(ranges, i) == \E r \in ranges : r[1] <= i /\ i < r[2]

FullyWritten(ranges, size) == \A i \in {0, size - 1} : IsWritten(ranges, i)
                              /\ Cardinality(ranges) <= 1

\* create_shard: `init` allocates the header and data_size zero bytes
DeclaredShard(index, size, authority) ==
    [allocated |-> TRUE, shard_index |-> index, data_size |-> size,
     authority |-> authority, finalized |-> FALSE, data_hash |-> ZeroHash,
     bytes_written |-> 0]

\* variant: upload_chunk without the MAX_CHUNK_SIZE check
upload_chunk_result_mut(hdr, authority, offset, len, account_len) ==
    IF authority # hdr.authority THEN "Unauthorized"
    ELSE IF hdr.finalized THEN "ShardFinalized"
    ELSE IF offset + len > hdr.data_size THEN "ChunkOutOfBounds"
    ELSE IF WEIGHT_HEADER_SIZE + offset + len > account_len THEN "ChunkOutOfBounds"
    ELSE Ok

\* upload_chunk: the require! chain, in source order
upload_chunk_result(hdr, authority, offset, len, account_len) ==
    IF authority # hdr.authority THEN "Unauthorized"
    ELSE IF hdr.finalized THEN "ShardFinalized"
    ELSE IF offset + len > hdr.data_size THEN "ChunkOutOfBounds"
    ELSE IF len > MAX_CHUNK_SIZE THEN "ChunkTooLarge"
    ELSE IF WEIGHT_HEADER_SIZE + offset + len > account_len THEN "ChunkOutOfBounds"
    ELSE Ok

\* variant: the chunk is bounded by the data account only, not by data_size
upload_weights_result_mut(hdr, authority, offset, len, account_len) ==
    IF authority # hdr.authority THEN "Unauthorized"
    ELSE IF hdr.finalized THEN "AlreadyFinalized"
    ELSE IF len > MAX_CHUNK_SIZE THEN "ChunkTooLarge"
    ELSE IF WEIGHT_HEADER_SIZE + offset + len > account_len THEN "Panic"
    ELSE Ok

\* upload_weights (world-model): the require! chain, then the slice bounds
\* of the data account (an out-of-range slice aborts the program)
upload_weights_result(hdr, authority, offset, len, account_len) ==
    IF authority # hdr.authority THEN "Unauthorized"
    ELSE IF hdr.finalized THEN "AlreadyFinalized"
    ELSE IF len > MAX_CHUNK_SIZE THEN "ChunkTooLarge"
    ELSE IF offset + len > hdr.data_size THEN "ChunkOutOfBounds"
    ELSE IF WEIGHT_HEADER_SIZE + offset + len > account_len THEN "Panic"
    ELSE Ok

\* Effect of an accepted chunk: h is the header account, d the data account
ChunkWritten(op, err, authority, h, d, offset, data) ==
    LET end == offset + data.len
        carries_target == data = TargetBytes(shard[h].data_size, offset, data.len)
    IN
    /\ last' = UploadCall(op, err, authority, h, d, FALSE)
    /\ IF err = Ok
       THEN /\ shard_data' = [shard_data EXCEPT ![d] = CopyFromSlice(@, offset, data)]
            /\ shard' = [shard EXCEPT ![h].bytes_written = HighWater(@, end)]
            /\ written' = [written EXCEPT ![d] = AddRange(@, offset, end)]
            /\ faithful' = [x \in ShardIds |->
                              IF x = h \/ x = d
                              THEN faithful[x] /\ h = d /\ carries_target
                              ELSE faithful[x]]
            /\ high_end' = [high_end EXCEPT ![h] = IF end > @ THEN end ELSE @]
       ELSE UNCHANGED <<shard, shard_data, written, faithful, high_end>>
    /\ UNCHANGED scope
    /\ UNCHANGED sessionVars
    /\ UNCHANGED kernel

upload_chunk(authority, h, d, offset, data) ==
    /\ scope = "upload_weights"
    /\ shard[h].allocated /\ shard[d].allocated
    /\ ChunkWritten("write_chunk",
                    upload_chunk_result(shard[h], authority, offset, data.len,
                                        AccountLen(d)),
                    authority, h, d, offset, data)

upload_weights(authority, h, d, offset, data) ==
    /\ scope = "world_model_weights"
    /\ shard[h].allocated /\ shard[d].allocated
    /\ ChunkWritten("write_chunk",
                    upload_weights_result(shard[h], authority, offset, data.len,
                                          AccountLen(d)),
                    authority, h, d, offset, data)

\* account_data[header_size .. header_size + data_size] is in range
RegionFits(h, d) == WEIGHT_HEADER_SIZE + shard[h].data_size <= AccountLen(d)

\* The bytes finalize hashes: the data account's first data_size bytes
\* (the slice does not exist when the data account is too short)
DataRegion(h, d) ==
    IF RegionFits(h, d) THEN Prefix(shard_data[d], shard[h].data_size)
    ELSE ZeroRegion(0)

\* require!(shard.bytes_written >= shard.data_size, ..)
upload_complete(hdr) == hdr.bytes_written >= hdr.data_size

\* variant: the expected hash is stored without being compared
hash_matches_mut(computed, expected) == TRUE

\* require!(computed_hash == expected_hash, ..)
hash_matches(computed, expected) == computed = expected

\* variant: finalize without the finalized check
finalize_result_mut(hdr, authority, finalized_error, region_fits, computed, expected) ==
    IF authority # hdr.authority THEN "Unauthorized"
    ELSE IF ~upload_complete(hdr) THEN "IncompleteUpload"
    ELSE IF ~region_fits THEN "Panic"
    ELSE IF ~hash_matches(computed, expected) THEN "HashMismatch"
    ELSE Ok

\* finalize_shard / finalize_weights: same require! chain; the names of the
\* "finalized" error differ
finalize_result(hdr, authority, finalized_error, region_fits, computed, expected) ==
    IF authority # hdr.authority THEN "Unauthorized"
    ELSE IF hdr.finalized THEN finalized_error
    ELSE IF ~upload_complete(hdr) THEN "IncompleteUpload"
    ELSE IF ~region_fits THEN "Panic"
    ELSE IF ~hash_matches(computed, expected) THEN "HashMismatch"
    ELSE Ok

Finalized(finalized_error, authority, h, d, expected) ==
    LET fits == RegionFits(h, d)
        computed == Hash(DataRegion(h, d))
        err == finalize_result(shard[h], authority, finalized_error, fits,
                               computed, expected)
    IN
    /\ last' = UploadCall("finalize", err, authority, h, d,
                          fits /\ computed = expected)
    /\ IF err = Ok
       THEN shard' = [shard EXCEPT ![h].finalized = TRUE,
                                   ![h].data_hash = expected]
       ELSE UNCHANGED shard
    /\ UNCHANGED <<scope, shard_data, written, faithful, high_end>>
    /\ UNCHANGED sessionVars
    /\ UNCHANGED kernel

\* Hashes a client may present: of what the data account holds, of the blob
\* it meant to upload, and a stale all-zero hash
ExpectedHashes(h, d) ==
    {Hash(DataRegion(h, d)), Hash(TargetBlob(shard[h].data_size)), ZeroHash}

finalize_shard(authority, h, d, expected) ==
    /\ scope = "upload_weights"
    /\ shard[h].allocated /\ shard[d].allocated
    /\ Finalized("ShardFinalized", authority, h, d, expected)

finalize_weights(authority, h, d, expected) ==
    /\ scope = "world_model_weights"
    /\ shard[h].allocated /\ shard[d].allocated
    /\ Finalized("AlreadyFinalized", authority, h, d, expected)

\* ========================================================================
\* Numeric kernels: matmul
\* ========================================================================
\* `kernel` starts as the arguments of one kernel call; the call replaces it
\* by the arguments with the results.  Slices are sequences; the source
\* indexes them from 0.

At(q, i) == q[i + 1]

RECURSIVE SeqSum(_)
SeqSum(q) == IF q = << >> THEN 0 ELSE Head(q) + SeqSum(Tail(q))

\* Argument values: a slice of length n repeats a short cycle of values
CycleSlice(cycle, n) == [k \in 1..n |-> cycle[((k - 1) % Len(cycle)) + 1]]
WeightCycles == [1..3 -> {127, 128, 255}]      \* weight bytes (u8)
InputCycles == [1..3 -> {-128, 3, 127}]        \* activations (i8)

\* variant: the columns past the last full group of four are skipped
matmul_i8_unrolled_mut(weights, input, rows, cols) ==
    LET chunks == cols \div 4
        row(i) ==
            LET row_offset == i * cols
                lane(k) == SeqSum([j \in 1..chunks |->
                               as_i8(At(weights, row_offset + (j - 1) * 4 + k))
                                   * At(input, (j - 1) * 4 + k)])
            IN  lane(0) + lane(1) + lane(2) + lane(3)
    IN  [i \in 1..rows |-> row(i - 1)]

\* run-inference matmul_i8: four accumulators over groups of four columns,
\* then the remainder columns (i32 accumulators; |sum| <= cols * 2^14)
matmul_i8_unrolled(weights, input, rows, cols) ==
    LET chunks == cols \div 4
        remainder == cols % 4
        row(i) ==
            LET row_offset == i * cols
                lane(k) == SeqSum([j \in 1..chunks |->
                               as_i8(At(weights, row_offset + (j - 1) * 4 + k))
                                   * At(input, (j - 1) * 4 + k)])
                acc_rem == SeqSum([j \in 1..remainder |->
                               as_i8(At(weights, row_offset + chunks * 4 + j - 1))
                                   * At(input, chunks * 4 + j - 1)])
            IN  lane(0) + lane(1) + lane(2) + lane(3) + acc_rem
    IN  [i \in 1..rows |-> row(i - 1)]

\* (ptr.add(base) as *const u32).read_unaligned() on the little-endian target
read_unaligned_u32(bytes, base) ==
    u32_word(At(bytes, base + 3) * 256 + At(bytes, base + 2),
             At(bytes, base + 1) * 256 + At(bytes, base))

\* ((w4 >> (8 * k)) as u8) for k = 0..3
byte_of_u32(w4, k) ==
    IF k = 0 THEN w4[2] % 256
    ELSE IF k = 1 THEN (w4[2] \div 256) % 256
    ELSE IF k = 2 THEN w4[1] % 256
    ELSE (w4[1] \div 256) % 256

\* world-model matmul_i8: one packed load per group of four columns
matmul_i8_packed(weights, input, rows, cols) ==
    LET chunks == cols \div 4
        remainder == cols % 4
        x_bytes == [k \in DOMAIN input |-> as_u8(input[k])]
        row(i) ==
            LET row_offset == i * cols
                group(j) ==
                    LET w4 == read_unaligned_u32(weights, row_offset + j * 4)
                        x4 == read_unaligned_u32(x_bytes, j * 4)
                    IN  SeqSum([k \in 1..4 |->
                            as_i8(byte_of_u32(w4, k - 1)) * as_i8(byte_of_u32(x4, k - 1))])
                acc_groups == SeqSum([j \in 1..chunks |-> group(j - 1)])
                acc_rem == SeqSum([j \in 1..remainder |->
                               as_i8(At(weights, row_offset + chunks * 4 + j - 1))
                                   * At(input, chunks * 4 + j - 1)])
            IN  acc_groups + acc_rem
    IN  [i \in 1..rows |-> row(i - 1)]

\* syscall matmul_i8: the plain loop over signed weights
matmul_i8_scalar(weights, input, rows, cols) ==
    [i \in 1..rows |->
        SeqSum([j \in 1..cols |-> At(weights, (i - 1) * cols + j - 1) * At(input, j - 1)])]

\* matrices of 1..MaxRows rows and 0..MaxCols columns with their vectors
MatmulArgs ==
    {[op |-> "matmul_args", rows |-> rows, cols |-> cols,
      weights |-> CycleSlice(w, rows * cols), input |-> CycleSlice(x, cols)] :
        rows \in 1..MaxRows, cols \in 0..MaxCols, w \in WeightCycles, x \in InputCycles}

\* The three implementations applied to the same matrix and vector; the
\* syscall is handed the weight bytes reinterpreted as i8
matmul_call ==
    /\ scope = "matmul"
    /\ kernel.op = "matmul_args"
    /\ LET rows == kernel.rows
           cols == kernel.cols
           weights == kernel.weights
           input == kernel.input
       IN  kernel' = [op |-> "matmul_i8", rows |-> rows, cols |-> cols,
                      weights |-> weights, input |-> input,
                      unrolled |-> matmul_i8_unrolled(weights, input, rows, cols),
                      packed |-> matmul_i8_packed(weights, input, rows, cols),
                      scalar |-> matmul_i8_scalar(
                                     [k \in DOMAIN weights |-> as_i8(weights[k])],
                                     input, rows, cols)]
    /\ UNCHANGED programVars

\* ========================================================================
\* Numeric kernels: activation tables
\* ========================================================================
SILU_OFFSET == 0
SOFTPLUS_OFFSET == 256
RSQRT_OFFSET == 512
EXP_NEG_OFFSET == 768
LUT_TOTAL_SIZE == 1024

\* The packed tables are data of the manifest.  Three blobs stand for it:
\* "ramp" (every table holds its own index), "staggered" (table t holds
\* index + 64 * t + 1, so the four tables differ at every index) and
\* "falling" (255 - index, the shape of a decay table).
LutNames == {"ramp", "staggered", "falling"}

\* lut_data[k] for 0 <= k < LUT_TOTAL_SIZE
LutByte(lut_data, k) ==
    IF lut_data = "ramp" THEN k % 256
    ELSE IF lut_data = "staggered" THEN (k + 64 * (k \div 256) + 1) % 256
    ELSE 255 - (k % 256)

\* variant: the signed input is moved up by 128 to form the index
silu_lut_mut(lut_data, x) ==
    LET idx == x + 128
    IN  as_i8(LutByte(lut_data, SILU_OFFSET + idx))

silu_lut(lut_data, x) ==
    LET idx == as_u8(x)
    IN  as_i8(LutByte(lut_data, SILU_OFFSET + idx))

softplus_lut(lut_data, x) ==
    LET idx == as_u8(x)
    IN  as_i8(LutByte(lut_data, SOFTPLUS_OFFSET + idx))

rsqrt_lut(lut_data, x) == LutByte(lut_data, RSQRT_OFFSET + x)

exp_neg_lut(lut_data, x) == LutByte(lut_data, EXP_NEG_OFFSET + x)

\* every signed byte with the unsigned byte of the same bits, on each blob
LutArgs ==
    {[op |-> "lut_args", lut_data |-> l, x |-> x] : l \in LutNames, x \in -128..127}

\* The four lookups of one byte: the signed functions get x as i8, the
\* unsigned ones the same bits as u8
lut_call ==
    /\ scope = "lut"
    /\ kernel.op = "lut_args"
    /\ kernel' = [op |-> "lut", lut_data |-> kernel.lut_data, x |-> kernel.x,
                  silu |-> silu_lut(kernel.lut_data, kernel.x),
                  softplus |-> softplus_lut(kernel.lut_data, kernel.x),
                  rsqrt |-> rsqrt_lut(kernel.lut_data, as_u8(kernel.x)),
                  exp_neg |-> exp_neg_lut(kernel.lut_data, as_u8(kernel.x))]
    /\ UNCHANGED programVars

\* ========================================================================
\* Numeric kernels: selective scan
\* ========================================================================
\* v >> k on a signed integer: arithmetic shift, rounds toward minus infinity
shr(v, k) == v \div (2 ^ k)

abs(v) == IF v < 0 THEN -v ELSE v

\* A_bar of channel values dt and a (a_log read as i8), through the table
a_bar(dt_val, a_val, lut_data) ==
    LET dt_a == as_u8(min(shr(abs(dt_val) * abs(a_val), 4), 255))
    IN  exp_neg_lut(lut_data, dt_a)

b_val(x_val, j) == clamp(shr(x_val * (j + 1), 4), -128, 127)

\* variant: C is taken from the position alone
c_val_mut(x_val, j, d_state) == clamp(d_state - j, -128, 127)

c_val(x_val, j, d_state) == clamp(shr(x_val * (d_state - j), 4), -128, 127)

\* h_new of entry (i, j), before it is clamped into the hidden state
h_new(x_ssm, dt, h, a_log, lut_data, d_state, i, j) ==
    LET dt_val == At(dt, i)
        a_val == as_i8(At(a_log, i))
        x_val == At(x_ssm, i)
    IN  shr(a_bar(dt_val, a_val, lut_data) * At(h, i * d_state + j)
                + dt_val * b_val(x_val, j), 8)

\* selective_scan_step (the same loop is inlined in mamba2_layer_step):
\* the hidden state after the call and the output vector
selective_scan_step(x_ssm, dt, h, a_log, lut_data, d_inner, d_state) ==
    LET new(i, j) == h_new(x_ssm, dt, h, a_log, lut_data, d_state, i, j)
        y_acc(i) == SeqSum([n \in 1..d_state |->
                        c_val(At(x_ssm, i), n - 1, d_state) * new(i, n - 1)])
    IN  [h |-> [k \in 1..(d_inner * d_state) |->
                    as_i8(clamp(new((k - 1) \div d_state, (k - 1) % d_state),
                                -128, 127))],
         y_ssm |-> [n \in 1..d_inner |-> as_i8(clamp(shr(y_acc(n - 1), 8), -128, 127))]]

XCycles == [1..2 -> {-128, 0, 32, 127}]        \* x_ssm (i8)
DtValues == {-128, 0, 16, 127}                 \* dt (i8), one value per call
AValues == {8, 128}                            \* a_log bytes (u8)
HCycles == [1..2 -> {-128, 0, 10, 127}]        \* hidden state (i8)

ScanArgs ==
    {[op |-> "scan_args", d_inner |-> d_inner, d_state |-> d_state,
      x_ssm |-> CycleSlice(x, d_inner), dt |-> CycleSlice(<<t>>, d_inner),
      h |-> CycleSlice(h0, d_inner * d_state), a_log |-> CycleSlice(<<a>>, d_inner),
      lut_data |-> l] :
        d_inner \in 1..MaxDInner, d_state \in 1..MaxDState, x \in XCycles,
        t \in DtValues, h0 \in HCycles, a \in AValues, l \in LutNames}

scan_call ==
    /\ scope = "scan"
    /\ kernel.op = "scan_args"
    /\ LET out == selective_scan_step(kernel.x_ssm, kernel.dt, kernel.h, kernel.a_log,
                                      kernel.lut_data, kernel.d_inner, kernel.d_state)
       IN  kernel' = [op |-> "selective_scan_step",
                      d_inner |-> kernel.d_inner, d_state |-> kernel.d_state,
                      x_ssm |-> kernel.x_ssm, dt |-> kernel.dt, h_before |-> kernel.h,
                      a_log |-> kernel.a_log, lut_data |-> kernel.lut_data,
                      h |-> out.h, y_ssm |-> out.y_ssm]
    /\ UNCHANGED programVars

\* ========================================================================
\* Numeric kernels: requantize
\* ========================================================================
\* (value as i64 * scale as i64) >> 16 for an i32 value and a u16 scale.  The
\* 48-bit product is formed from the 16-bit halves of value so that every
\* intermediate stays below 2^31; the result lies in the i32 range, so the
\* cast back to i32 changes nothing.
mul_shr16(value, scale) ==
    LET high == value \div 65536
        low == value % 65536
        low1 == low \div 256
        low0 == low % 256
    IN  high * scale + ((low1 * scale + ((low0 * scale) \div 256)) \div 256)

\* variant: the scaled value is narrowed to i8 without the clamp
requantize_per_channel_mut(input, scales, n) ==
    [i \in 1..n |->
        LET scaled == mul_shr16(input[i], scales[i])
        IN  as_i8(scaled)]

requantize_per_channel(input, scales, n) ==
    [i \in 1..n |->
        LET scaled == mul_shr16(input[i], scales[i])
        IN  as_i8(clamp(scaled, -128, 127))]

requantize_per_tensor(input, scale, n) ==
    LET scale_i64 == scale
    IN  [i \in 1..n |->
            LET scaled == mul_shr16(input[i], scale_i64)
            IN  as_i8(clamp(scaled, -128, 127))]

I32Cycles == [1..2 -> {-2147483647 - 1, -2000, -100, 0, 500, 1000, 8388608, 2147483647}]
U16Cycles == [1..2 -> {0, 1, 8192, 16384, 32768, 65535}]

RequantizeArgs ==
    {[op |-> "requantize_args", n |-> n,
      input |-> CycleSlice(v, n), scales |-> CycleSlice(c, n)] :
        n \in 1..MaxN, v \in I32Cycles, c \in U16Cycles}

\* Both variants on the same accumulators: per channel with the scales, per
\* tensor with the first scale, and per channel with that scale repeated
requantize_call ==
    /\ scope = "requantize"
    /\ kernel.op = "requantize_args"
    /\ LET n == kernel.n
           input == kernel.input
           scales == kernel.scales
       IN  kernel' = [op |-> "requantize", n |-> n, input |-> input, scales |-> scales,
                      per_channel |-> requantize_per_channel(input, scales, n),
                      per_tensor |-> requantize_per_tensor(input, scales[1], n),
                      per_channel_uniform |->
                          requantize_per_channel(input, [i \in 1..n |-> scales[1]], n)]
    /\ UNCHANGED programVars

\* ========================================================================
\* Numeric kernels: element-wise add and multiply
\* ========================================================================
\* variant: the sum is formed in 8 bits and wraps
add_i8_mut(a, b, n) ==
    [i \in 1..n |-> as_i8(a[i] + b[i])]

\* add_i8: 16-bit sum, clamped
add_i8(a, b, n) ==
    [i \in 1..n |->
        LET sum == as_i16(a[i] + b[i])
        IN  as_i8(clamp(sum, -128, 127))]

\* elementwise_mul_i8: 32-bit product, arithmetic shift, clamped
elementwise_mul_i8(a, b, n, shift) ==
    [i \in 1..n |->
        LET product == a[i] * b[i]
            shifted == shr(product, shift)
        IN  as_i8(clamp(shifted, -128, 127))]

ACycles == [1..2 -> {-128, -100, -20, 10, 100, 127}]     \* a (i8)
BCycles == [1..2 -> {-128, -100, -5, 5, 100, 127}]       \* b (i8)
ShiftValues == {0, 4, 7}                                 \* shift (u32)

ElementwiseArgs ==
    {[op |-> "elementwise_args", n |-> n, shift |-> shift,
      a |-> CycleSlice(a, n), b |-> CycleSlice(b, n)] :
        n \in 1..MaxN, shift \in ShiftValues, a \in ACycles, b \in BCycles}

\* add_i8 and elementwise_mul_i8 on the same two vectors
elementwise_call ==
    /\ scope = "elementwise"
    /\ kernel.op = "elementwise_args"
    /\ kernel' = [op |-> "elementwise", n |-> kernel.n, shift |-> kernel.shift,
                  a |-> kernel.a, b |-> kernel.b,
                  sum |-> add_i8(kernel.a, kernel.b, kernel.n),
                  product |-> elementwise_mul_i8(kernel.a, kernel.b, kernel.n,
                                                 kernel.shift)]
    /\ UNCHANGED programVars

\* ========================================================================
\* Frame record: packed controller input
\* ========================================================================
StickValues == {-128, -1, 0, 1, 127}       \* stick_x, stick_y, c_stick_x (i8)
ButtonValues == {0, 1, 128, 255}           \* buttons (u8)

PackArgs ==
    {[op |-> "pack_args",
      input |-> [NeutralInput EXCEPT !.stick_x = sx, !.stick_y = sy,
                                     !.c_stick_x = cx, !.buttons = bt]] :
        sx \in StickValues, sy \in StickValues, cx \in StickValues, bt \in ButtonValues}

pack_call ==
    /\ scope = "pack_input"
    /\ kernel.op = "pack_args"
    /\ kernel' = [op |-> "pack_input", input |-> kernel.input,
                  packed |-> pack_input(kernel.input)]
    /\ UNCHANGED programVars

\* ========================================================================
\* Selective scan, one inner-loop iteration at a time
\* ========================================================================
\* The scan in progress: `h` is the buffer being updated in place, pos[i]
\* the next j of channel i, y_acc[i] its accumulator, y_ssm the output buffer
\* (zero until a channel writes its entry); `reordered` records that some
\* iteration ran while a lower channel was unfinished.

\* variant: the entry read is the one of the following channel
scan_entry_mut(st, i, j) ==
    LET n == st.d_inner * st.d_state
        h_idx == (i * st.d_state + j + st.d_state) % n
        x_val == At(st.x_ssm, i)
        dt_val == At(st.dt, i)
        new == shr(a_bar(dt_val, as_i8(At(st.a_log, i)), st.lut_data) * At(st.h, h_idx)
                       + dt_val * b_val(x_val, j), 8)
    IN  [stored |-> as_i8(clamp(new, -128, 127)),
         term |-> c_val(x_val, j, st.d_state) * new]

\* One iteration of the j loop for channel i on the buffers in st: the value
\* stored at h[i * d_state + j] and the term added to y_acc
scan_entry(st, i, j) ==
    LET new == h_new(st.x_ssm, st.dt, st.h, st.a_log, st.lut_data, st.d_state, i, j)
    IN  [stored |-> as_i8(clamp(new, -128, 127)),
         term |-> c_val(At(st.x_ssm, i), j, st.d_state) * new]

\* The buffers after channel i has run its next iteration; the last
\* iteration of a channel also writes y_ssm[i]
EntryStep(st, i) ==
    LET j == At(st.pos, i)
        e == scan_entry(st, i, j)
        acc == At(st.y_acc, i) + e.term
    IN  [st EXCEPT !.h[i * st.d_state + j + 1] = e.stored,
                   !.y_acc[i + 1] = acc,
                   !.pos[i + 1] = j + 1,
                   !.y_ssm[i + 1] = IF j + 1 = st.d_state
                                    THEN as_i8(clamp(shr(acc, 8), -128, 127))
                                    ELSE @,
                   !.reordered = @ \/ \E k \in 0..(i - 1) : At(st.pos, k) < st.d_state]

RECURSIVE RunOrder(_, _)
RunOrder(st, order) ==
    IF order = << >> THEN st ELSE RunOrder(EntryStep(st, Head(order)), Tail(order))

\* for i in 0..d_inner { for j in 0..d_state { .. } }
SequentialOrder(d_inner, d_state) ==
    [k \in 1..(d_inner * d_state) |-> (k - 1) \div d_state]

ScanStart(d_inner, d_state, x_ssm, dt, h, a_log, lut_data) ==
    [op |-> "scan_running", d_inner |-> d_inner, d_state |-> d_state,
     x_ssm |-> x_ssm, dt |-> dt, a_log |-> a_log, lut_data |-> lut_data,
     h_before |-> h, h |-> h,
     pos |-> [i \in 1..d_inner |-> 0], y_acc |-> [i \in 1..d_inner |-> 0],
     y_ssm |-> [i \in 1..d_inner |-> 0], reordered |-> FALSE]

LaneXCycles == [1..2 -> {-128, 127}]
LaneHCycles == [1..2 -> {-128, 10, 127}]
LaneDtValues == {-128, 16, 127}
LaneLuts == {"ramp", "falling"}

InterleaveArgs ==
    {ScanStart(d_inner, d_state, CycleSlice(x, d_inner), CycleSlice(<<t>>, d_inner),
               CycleSlice(h0, d_inner * d_state), CycleSlice(<<128>>, d_inner), l) :
        d_inner \in 1..MaxLanes, d_state \in 1..MaxDState, x \in LaneXCycles,
        t \in LaneDtValues, h0 \in LaneHCycles, l \in LaneLuts}

\* any unfinished channel runs its next iteration
scan_entry_step(i) ==
    /\ scope = "scan_interleaved"
    /\ kernel.op = "scan_running"
    /\ i < kernel.d_inner
    /\ At(kernel.pos, i) < kernel.d_state
    /\ kernel' = EntryStep(kernel, i)
    /\ UNCHANGED programVars

\* ========================================================================
\* Numeric kernels: RMSNorm
\* ========================================================================
\* variant: the mean square is not capped before it is scaled to a byte
rmsnorm_index_mut(x) ==
    LET sum_sq == SeqSum([i \in 1..Len(x) |-> x[i] * x[i]])
        mean_sq == sum_sq \div Len(x)
    IN  as_u8(mean_sq \div 64)

\* the rsqrt table index of a non-empty vector (n = 0 divides by zero)
rmsnorm_index(x) ==
    LET sum_sq == SeqSum([i \in 1..Len(x) |-> x[i] * x[i]])
        mean_sq == sum_sq \div Len(x)
    IN  as_u8(min(mean_sq, 255 * 64) \div 64)

\* rmsnorm_int8; val * weight_scale is a 32-bit product, which the scales
\* drawn below keep under 2^31
rmsnorm_int8(lut_data, x, weight, weight_scale) ==
    LET rsqrt_val == rsqrt_lut(lut_data, rmsnorm_index(x))
    IN  [i \in 1..Len(x) |->
            LET val == x[i] * weight[i] * rsqrt_val
                rescaled == shr(val * weight_scale, 16)
            IN  as_i8(clamp(rescaled, -128, 127))]

NormXCycles == [1..2 -> {-128, -1, 0, 64, 127}]      \* x (i8)
NormWeightCycles == [1..2 -> {-128, 1, 127}]         \* weight (i8)
WeightScales == {1, 256}                             \* weight_scale (the pipeline passes 256)

RmsnormArgs ==
    {[op |-> "rmsnorm_args", lut_data |-> l, weight_scale |-> ws,
      x |-> CycleSlice(x, n), weight |-> CycleSlice(w, n)] :
        n \in 1..MaxN, x \in NormXCycles, w \in NormWeightCycles,
        ws \in WeightScales, l \in LutNames}

rmsnorm_call ==
    /\ scope = "rmsnorm"
    /\ kernel.op = "rmsnorm_args"
    /\ kernel' = [op |-> "rmsnorm_int8", lut_data |-> kernel.lut_data,
                  weight_scale |-> kernel.weight_scale,
                  x |-> kernel.x, weight |-> kernel.weight,
                  lut_idx |-> rmsnorm_index(kernel.x),
                  output |-> rmsnorm_int8(kernel.lut_data, kernel.x, kernel.weight,
                                          kernel.weight_scale)]
    /\ UNCHANGED programVars

\* ========================================================================
\* Forward pass: forward_pass and mamba2_layer_step
\* ========================================================================

\* The outcome of a call that hit a failed assert! or a slice out of range
Panicked == [panicked |-> TRUE]

\* One layer: RMSNorm, in-projection, selective scan, gate, out-projection,
\* residual add.  x is the residual vector and h the layer's hidden slice;
\* both are updated in place.
mamba2_layer_step(x, h, weights, lut_data, config) ==
    LET d_model == config.d_model
        d_inner == config.d_inner
        d_state == config.d_state
        norm == [k \in 1..d_model |-> as_i8(weights.norm[k])]
        x_norm == rmsnorm_int8(lut_data, x, norm, 256)
        proj_i32 == matmul_i8_unrolled(weights.in_proj, x_norm, 2 * d_inner, d_model)
        proj_i8 == requantize_per_channel(proj_i32, weights.in_proj_scales, 2 * d_inner)
        z == SubSeq(proj_i8, 1, d_inner)
        x_ssm == SubSeq(proj_i8, d_inner + 1, 2 * d_inner)
        dt == [i \in 1..d_inner |->
                  LET dt_raw == as_i8(clamp(as_i16(x_ssm[i] + as_i8(weights.dt_bias[i])),
                                            -128, 127))
                  IN  softplus_lut(lut_data, dt_raw)]
        scan == selective_scan_step(x_ssm, dt, h, weights.a_log, lut_data,
                                    d_inner, d_state)
        gate == [i \in 1..d_inner |-> silu_lut(lut_data, z[i])]
        y_gated == elementwise_mul_i8(scan.y_ssm, gate, d_inner, 7)
        out_i32 == matmul_i8_unrolled(weights.out_proj, y_gated, d_model, d_inner)
        y_out == requantize_per_channel(out_i32, weights.out_proj_scales, d_model)
    IN  \* assert!(weights.len() >= rows * cols) of the two matmul_i8 calls
        IF Len(weights.in_proj) < 2 * d_inner * d_model THEN Panicked
        ELSE IF Len(weights.out_proj) < d_model * d_inner THEN Panicked
        ELSE [panicked |-> FALSE, x |-> add_i8(x, y_out, d_model), h |-> scan.h]

\* variant: every layer uses the first hidden-state range
h_offset_mut(layer_idx, h_per_layer) == 0

\* let h_offset = layer_idx * h_per_layer
h_offset(layer_idx, h_per_layer) == layer_idx * h_per_layer

\* The two weight slices forward_pass cuts out of a shard for one layer
layer_weight_slices(weight_data, config, layer_idx) ==
    LET in_proj_size == 2 * config.d_inner * config.d_model
        out_proj_size == config.d_model * config.d_inner
        layer_weight_offset == layer_idx * (in_proj_size + out_proj_size)
        shard_idx == IF layer_weight_offset < Len(weight_data[1]) THEN 0 ELSE 1
        shard_bytes == weight_data[shard_idx + 1]
        offset_in_shard == IF shard_idx = 0 THEN layer_weight_offset
                           ELSE layer_weight_offset - Len(weight_data[1])
        in_proj_end == min(offset_in_shard + in_proj_size, Len(shard_bytes))
        out_proj_start == in_proj_end
        out_proj_end == min(out_proj_start + out_proj_size, Len(shard_bytes))
    IN  \* &shard[offset_in_shard..in_proj_end] with the start past the end
        IF offset_in_shard > in_proj_end THEN Panicked
        ELSE [panicked |-> FALSE,
              in_proj |-> SubSeq(shard_bytes, offset_in_shard + 1, in_proj_end),
              out_proj |-> SubSeq(shard_bytes, out_proj_start + 1, out_proj_end)]

\* Forward-pass arguments.  The weight bytes of all layers are laid out one
\* layer after the other (in-projection, then out-projection) and cut into
\* two shards after the first shard0_len bytes; byte p of the layout has a
\* value that names its position.
WeightByte(p) == (p * 37 + 11) % 256
LayerBytes(config) == 3 * config.d_inner * config.d_model
LogicalWeights(config) ==
    [k \in 1..(config.num_layers * LayerBytes(config)) |-> WeightByte(k - 1)]

ForwardConfigs ==
    {[d_model |-> dm, d_inner |-> di, d_state |-> ds, num_layers |-> nl] :
        dm \in 1..MaxWidth, di \in 1..MaxWidth, ds \in 1..MaxDState,
        nl \in 1..MaxLayers}

ForwardInputCycles == {<<50, -30>>}                     \* input (i8)
ForwardLuts == {"ramp", "staggered"}                    \* lut_data
ForwardHiddenCycles == {<<0>>, <<10, -20, 30>>}         \* hidden_state (i8)

\* norm_weights, a_logs, dt_biases, layer_in_scales, layer_out_scales of a layer
LayerParams(config, layer_idx) ==
    [norm |-> CycleSlice(<<64 + layer_idx, 200>>, config.d_model),
     a_log |-> CycleSlice(<<8, 128>>, config.d_inner),
     dt_bias |-> CycleSlice(<<16, 240>>, config.d_inner),
     in_proj_scales |-> CycleSlice(<<16384, 65535>>, 2 * config.d_inner),
     out_proj_scales |-> CycleSlice(<<32768, 8192>>, config.d_model)]

\* let weights = LayerWeights { .. }
LayerWeights(cut, params) ==
    [in_proj |-> cut.in_proj, out_proj |-> cut.out_proj, norm |-> params.norm,
     a_log |-> params.a_log, dt_bias |-> params.dt_bias,
     in_proj_scales |-> params.in_proj_scales,
     out_proj_scales |-> params.out_proj_scales]

\* every length of shard 0 from nothing to all of the layout
ForwardArgsOf(c) ==
    {[op |-> "forward_args", config |-> c, lut_data |-> l,
      weight_data |-> <<SubSeq(LogicalWeights(c), 1, n),
                        SubSeq(LogicalWeights(c), n + 1, Len(LogicalWeights(c)))>>,
      input |-> CycleSlice(x, c.d_model),
      hidden_state |-> CycleSlice(h0, c.num_layers * c.d_inner * c.d_state)] :
        l \in ForwardLuts, x \in ForwardInputCycles, h0 \in ForwardHiddenCycles,
        n \in 0..Len(LogicalWeights(c))}

ForwardArgs == UNION {ForwardArgsOf(c) : c \in ForwardConfigs}

\* The state of a running forward_pass: the loop variable, the residual
\* vector x, the hidden-state buffer, and a log of what each iteration was
\* handed and left behind
ForwardStart(a) ==
    [op |-> "forward_running", config |-> a.config, lut_data |-> a.lut_data,
     weight_data |-> a.weight_data, input |-> a.input,
     hidden_before |-> a.hidden_state, hidden_state |-> a.hidden_state,
     x |-> a.input, layer_idx |-> 0, steps |-> << >>]

\* One iteration of `for layer_idx in 0..config.num_layers`; the iteration
\* of the last layer is followed by the return of x
forward_layer_step ==
    /\ scope = "forward_pass"
    /\ kernel.op \in {"forward_args", "forward_running"}
    /\ LET st == IF kernel.op = "forward_args" THEN ForwardStart(kernel) ELSE kernel
           config == st.config
           layer_idx == st.layer_idx
           h_per_layer == config.d_inner * config.d_state
           offset == h_offset(layer_idx, h_per_layer)
           h_slice == SubSeq(st.hidden_state, offset + 1, offset + h_per_layer)
           cut == layer_weight_slices(st.weight_data, config, layer_idx)
           weights == LayerWeights(cut, LayerParams(config, layer_idx))
           out == IF cut.panicked THEN Panicked
                  ELSE mamba2_layer_step(st.x, h_slice, weights, st.lut_data, config)
           step == [layer_idx |-> layer_idx, h_offset |-> offset, x_in |-> st.x,
                    in_proj |-> IF cut.panicked THEN << >> ELSE cut.in_proj,
                    out_proj |-> IF cut.panicked THEN << >> ELSE cut.out_proj]
       IN  IF out.panicked
           THEN kernel' = [st EXCEPT !.op = "forward_panicked",
                                     !.steps = Append(@, step)]
           ELSE kernel' =
                  [st EXCEPT
                     !.op = IF layer_idx + 1 = config.num_layers
                            THEN "forward_pass" ELSE "forward_running",
                     !.x = out.x,
                     !.hidden_state =
                         [k \in 1..Len(st.hidden_state) |->
                             IF k > offset /\ k <= offset + h_per_layer
                             THEN out.h[k - offset] ELSE st.hidden_state[k]],
                     !.layer_idx = layer_idx + 1,
                     !.steps = Append(@, step)]
    /\ UNCHANGED programVars

\* The kernel arguments a scope starts from
KernelArgs ==
    IF scope = "matmul" THEN MatmulArgs
    ELSE IF scope = "requantize" THEN RequantizeArgs
    ELSE IF scope = "lut" THEN LutArgs
    ELSE IF scope = "scan" THEN ScanArgs
    ELSE IF scope = "elementwise" THEN ElementwiseArgs
    ELSE IF scope = "pack_input" THEN PackArgs
    ELSE IF scope = "scan_interleaved" THEN InterleaveArgs
    ELSE IF scope = "rmsnorm" THEN RmsnormArgs
    ELSE IF scope = "forward_pass" THEN ForwardArgs
    ELSE {NoKernel}

\* ========================================================================
\* Initial states and next-state relation
\* ========================================================================

InitIn(scopes) ==
    /\ scope \in scopes
    \* world-model session accounts are zeroed; BOLT components exist with
    \* their default contents
    /\ session = [s \in SessionIds |->
                    [DefaultSessionState EXCEPT !.disc = (scope \in EcsSessionScopes)]]
    /\ input_buffer = [s \in SessionIds |->
                    [DefaultInputBuffer EXCEPT !.disc = (scope \in EcsSessionScopes)]]
    /\ hidden_state = [s \in SessionIds |-> DefaultHiddenState]
    /\ frame_log = [s \in SessionIds |-> DefaultFrameLog]
    /\ manifest = [m \in ManifestIds |-> DefaultManifest]
    /\ fresh = [s \in SessionIds |-> {}]
    \* weight shards are declared and empty when exploration starts
    /\ IF scope \in {"world_model_weights", "upload_weights"}
       THEN \E layout \in Layouts :
              /\ shard = [h \in ShardIds |->
                            IF layout[h] = 0 THEN NoShard
                            ELSE DeclaredShard(h, layout[h], ShardOwner[h])]
              /\ shard_data = [h \in ShardIds |-> ZeroRegion(layout[h])]
       ELSE /\ shard = [h \in ShardIds |-> NoShard]
            /\ shard_data = [h \in ShardIds |-> ZeroRegion(0)]
    /\ written = [h \in ShardIds |-> {}]
    /\ faithful = [h \in ShardIds |-> TRUE]
    /\ high_end = [h \in ShardIds |-> 0]
    /\ last = NoCall
    /\ kernel \in KernelArgs

Init == InitIn(Scopes)

WorldModelSessionNext ==
    \/ \E m \in SoloManifests, a \in Creators : init_manifest(m, a, ManifestDims[m])
    \/ \E s \in SoloSessions, m \in SoloManifests, p \in Creators, mf \in MaxFramesArgs :
          wm_create_session(s, s, s, m, p, 0, 1, mf, 7)
    \/ \E s \in SoloSessions, p \in Signers : wm_join_session(s, p, 2)
    \/ \E s \in SoloSessions, p \in Signers : wm_close_session(s, p)
    \/ \E s \in SoloSessions, p \in Signers, c \in Controllers :
          wm_submit_input(s, s, p, c)
    \/ \E s \in SoloSessions, m \in SoloManifests : wm_run_inference(s, s, s, m)

EcsSessionNext ==
    \/ \E s \in SoloSessions, a \in {ACTION_CREATE, 9}, p \in Creators,
          mf \in MaxFramesArgs :
          session_lifecycle_execute(s, s, s, a, p, 1, 0, "M", mf, 7)
    \/ \E s \in SoloSessions, a \in {ACTION_JOIN, ACTION_END}, p \in Signers :
          session_lifecycle_execute(s, s, s, a, p, 2, 0, "M", 0, 7)
    \/ \E s \in SoloSessions, p \in Signers, c \in Controllers :
          submit_input_execute(s, s, p, c)
    \/ \E s \in SoloSessions : run_inference_execute(s, s, s, s)

\* The authority of a header tries every offset with every small chunk on
\* every data account and with the long chunks on the shard's own account;
\* any signer tries the probe chunk at offset 0.
UploadWeightsNext ==
    \/ \E h, d \in ShardIds, o \in Offsets, c \in SmallChunks :
          upload_chunk(shard[h].authority, h, d, o, c)
    \/ \E h \in ShardIds, o \in Offsets, c \in LongChunks :
          upload_chunk(shard[h].authority, h, h, o, c)
    \/ \E a \in Uploaders, h, d \in ShardIds : upload_chunk(a, h, d, 0, ProbeChunk)
    \/ \E a \in Uploaders, h, d \in ShardIds :
          \E e \in ExpectedHashes(h, d) : finalize_shard(a, h, d, e)

WorldModelWeightsNext ==
    \/ \E h, d \in ShardIds, o \in Offsets, c \in SmallChunks :
          upload_weights(shard[h].authority, h, d, o, c)
    \/ \E h \in ShardIds, o \in Offsets, c \in LongChunks :
          upload_weights(shard[h].authority, h, h, o, c)
    \/ \E a \in Uploaders, h, d \in ShardIds : upload_weights(a, h, d, 0, ProbeChunk)
    \/ \E a \in Uploaders, h, d \in ShardIds :
          \E e \in ExpectedHashes(h, d) : finalize_weights(a, h, d, e)

Next ==
    \/ WorldModelSessionNext
    \/ EcsSessionNext
    \/ UploadWeightsNext
    \/ WorldModelWeightsNext

Spec == Init /\ [][Next]_vars

\* Two sessions A and B of one program.  Each session is created, joined,
\* fed and closed with its own accounts; in addition submit_input and
\* run_inference are invoked with the Session State of A and the Input
\* Record, Hidden State and Frame Log of B (the account structs do not tie
\* those accounts to the session).
PairCreator == "alice"
PairJoiner == "bob"
PairPlayers == {PairCreator, PairJoiner}
\* <<session account, account the other records are taken from>>
AccountPairings == {<<"A", "A">>, <<"B", "B">>, <<"A", "B">>}

WorldModelPairNext ==
    \/ \E m \in SoloManifests : init_manifest(m, PairCreator, ManifestDims[m])
    \/ \E s \in SessionIds, m \in SoloManifests :
          wm_create_session(s, s, s, m, PairCreator, 0, 1, 1, 7)
    \/ \E s \in SessionIds : wm_join_session(s, PairJoiner, 2)
    \/ \E s \in SessionIds : wm_close_session(s, PairCreator)
    \/ \E a \in AccountPairings, p \in PairPlayers :
          wm_submit_input(a[1], a[2], p, JumpLeftInput)
    \/ \E a \in AccountPairings, m \in SoloManifests :
          wm_run_inference(a[1], a[2], a[2], m)

EcsPairNext ==
    \/ \E s \in SessionIds :
          session_lifecycle_execute(s, s, s, ACTION_CREATE, PairCreator, 1, 0, "M", 1, 7)
    \/ \E s \in SessionIds, a \in {ACTION_JOIN, ACTION_END} :
          session_lifecycle_execute(s, s, s, a, PairJoiner, 2, 0, "M", 0, 7)
    \/ \E a \in AccountPairings, p \in PairPlayers :
          submit_input_execute(a[1], a[2], p, JumpLeftInput)
    \/ \E a \in AccountPairings :
          run_inference_execute(a[1], a[2], a[2], a[2])

InitPair == InitIn(PairScopes)

NextPair ==
    \/ WorldModelPairNext
    \/ EcsPairNext

SpecPair == InitPair /\ [][NextPair]_vars

\* One world-model session and two manifests of different dimensions; the
\* session is created against either manifest and run_inference is handed
\* either manifest account.
InitShape == InitIn(ShapeScopes)

NextShape ==
    \/ \E m \in ManifestIds : init_manifest(m, PairCreator, ManifestDims[m])
    \/ \E s \in SoloSessions, m \in ManifestIds :
          wm_create_session(s, s, s, m, PairCreator, 0, 1, 1, 7)
    \/ \E s \in SoloSessions : wm_join_session(s, PairJoiner, 2)
    \/ \E s \in SoloSessions : wm_close_session(s, PairCreator)
    \/ \E s \in SoloSessions, p \in PairPlayers :
          wm_submit_input(s, s, p, JumpLeftInput)
    \/ \E s \in SoloSessions, m \in ManifestIds : wm_run_inference(s, s, s, m)

SpecShape == InitShape /\ [][NextShape]_vars

\* matmul_i8 applied to each of MatmulArgs
InitMatmul == InitIn({"matmul"})

NextMatmul == matmul_call

SpecMatmul == InitMatmul /\ [][NextMatmul]_vars

\* the four table lookups applied to each of LutArgs
InitLut == InitIn({"lut"})

NextLut == lut_call

SpecLut == InitLut /\ [][NextLut]_vars

\* the requantize variants applied to each of RequantizeArgs
InitRequantize == InitIn({"requantize"})

NextRequantize == requantize_call

SpecRequantize == InitRequantize /\ [][NextRequantize]_vars

\* add_i8 and elementwise_mul_i8 applied to each of ElementwiseArgs
InitElementwise == InitIn({"elementwise"})

NextElementwise == elementwise_call

SpecElementwise == InitElementwise /\ [][NextElementwise]_vars

\* pack_input applied to each of PackArgs
InitPack == InitIn({"pack_input"})

NextPack == pack_call

SpecPack == InitPack /\ [][NextPack]_vars

\* the iterations of selective_scan_step taken in any order
InitInterleave == InitIn({"scan_interleaved"})

NextInterleave == \E i \in 0..(MaxLanes - 1) : scan_entry_step(i)

SpecInterleave == InitInterleave /\ [][NextInterleave]_vars

\* rmsnorm_int8 applied to each of RmsnormArgs
InitRmsnorm == InitIn({"rmsnorm"})

NextRmsnorm == rmsnorm_call

SpecRmsnorm == InitRmsnorm /\ [][NextRmsnorm]_vars

\* One session of either program with its two players and a cranker, each
\* scheduled fairly: a player keeps calling submit_input, the cranker keeps
\* calling run_inference.
LiveScopes == {"world_model_session", "ecs_session"}

InitLive == InitIn(LiveScopes)

PlayerSubmits(p) ==
    \E c \in Controllers :
        \/ wm_submit_input("A", "A", p, c)
        \/ submit_input_execute("A", "A", p, c)

CrankerRuns ==
    \/ wm_run_inference("A", "A", "A", "M")
    \/ run_inference_execute("A", "A", "A", "A")

NextLive ==
    \/ init_manifest("M", PairCreator, ManifestDims["M"])
    \/ wm_create_session("A", "A", "A", "M", PairCreator, 0, 1, 1, 7)
    \/ wm_join_session("A", PairJoiner, 2)
    \/ \E p \in PairPlayers : wm_close_session("A", p)
    \/ session_lifecycle_execute("A", "A", "A", ACTION_CREATE, PairCreator,
                                 1, 0, "M", 1, 7)
    \/ \E a \in {ACTION_JOIN, ACTION_END}, p \in PairPlayers :
          session_lifecycle_execute("A", "A", "A", a, p, 2, 0, "M", 0, 7)
    \/ \E p \in PairPlayers : PlayerSubmits(p)
    \/ CrankerRuns

SpecLive ==
    /\ InitLive
    /\ [][NextLive]_vars
    /\ \A p \in PairPlayers : WF_vars(PlayerSubmits(p))
    /\ WF_vars(CrankerRuns)

\* forward_pass run layer by layer on each of ForwardArgs
InitForward == InitIn({"forward_pass"})

NextForward == forward_layer_step

SpecForward == InitForward /\ [][NextForward]_vars

\* selective_scan_step applied to each of ScanArgs
InitScan == InitIn({"scan"})

NextScan == scan_call

SpecScan == InitScan /\ [][NextScan]_vars


\* ========================================================================
\* Properties
\* ========================================================================

\* The records of the program (everything but the history variables)
records == <<session, input_buffer, hidden_state, frame_log, manifest,
             shard, shard_data>>

\* A session record exists once its account carries the discriminator
SessionExists(s) == session[s].disc

ForwardSteps ==
    {<<STATUS_CREATED, STATUS_WAITING_PLAYERS>>,
     <<STATUS_WAITING_PLAYERS, STATUS_ACTIVE>>,
     <<STATUS_ACTIVE, STATUS_ENDED>>,
     <<STATUS_WAITING_PLAYERS, STATUS_ENDED>>}

\* C1: under every sequence of create, join, close, submit_input and
\* run_inference the status only moves along Created -> WaitingPlayers ->
\* Active -> Ended (or WaitingPlayers -> Ended); Ended never changes again,
\* and create, join and close are rejected in Ended.
C1_StatusOnlyForward ==
    [][\A s \in SessionIds :
         /\ session'[s].status # session[s].status
               => <<session[s].status, session'[s].status>> \in ForwardSteps
         /\ session[s].status = STATUS_ENDED
               => /\ session'[s].status = STATUS_ENDED
                  /\ (last'.acct = s /\ last'.op \in {"create", "join", "close"})
                        => last'.err # Ok]_vars

C1_Witness ==
    \E s \in SessionIds :
        /\ session[s].status = STATUS_ENDED
        /\ last.acct = s /\ last.op = "create" /\ last.err # Ok

\* C2: after a successful run_inference, a further run_inference on the
\* still Active session is rejected with InputsNotReady unless both players
\* have each had a submit_input accepted since that success.
C2_OnePairOneFrame ==
    [][\A s \in SessionIds :
         (/\ last'.op = "run_inference" /\ last'.acct = s
          /\ SessionExists(s)
          /\ session[s].status = STATUS_ACTIVE
          /\ session[s].frame >= 1
          /\ fresh[s] # {1, 2})
            => last'.err = "InputsNotReady"]_vars

\* C3: on a session record that exists, run_inference is rejected with
\* SessionNotActive whenever the status is not Active, whatever the ready
\* flags; with InputsNotReady when the status is Active and the flags are not
\* both set; and it is accepted exactly when Active and both flags are set.
C3_RunInferenceGate ==
    [][\A s \in SessionIds :
         (last'.op = "run_inference" /\ last'.acct = s /\ SessionExists(s))
            => last'.err =
                 IF session[s].status # STATUS_ACTIVE THEN "SessionNotActive"
                 ELSE IF ~(input_buffer[s].p1_ready /\ input_buffer[s].p2_ready)
                      THEN "InputsNotReady"
                 ELSE Ok]_vars

C3_Witness ==
    \E s \in SessionIds :
        /\ last.op = "run_inference" /\ last.acct = s
        /\ last.err = "SessionNotActive"
        /\ session[s].status = STATUS_ENDED
        /\ input_buffer[s].p1_ready /\ input_buffer[s].p2_ready

\* C4: a rejected create, join, close, submit_input, run_inference,
\* write_chunk or finalize leaves every record exactly as it was.
C4_RejectedLeavesRecords ==
    [][last'.err # Ok => records' = records]_vars

C4_Witness ==
    /\ last.op = "write_chunk" /\ last.err = "ChunkOutOfBounds"
    /\ \E h \in ShardIds : shard[h].bytes_written > 0


\* The two upload programs name the "finalized" rejection differently
FinalizedError ==
    IF scope = "world_model_weights" THEN "AlreadyFinalized" ELSE "ShardFinalized"

\* Outcome of write_chunk(offset, len bytes) by `authority` with header
\* account h and data account d, in the program under exploration
WriteChunkResult(h, d, authority, offset, len) ==
    IF scope = "world_model_weights"
    THEN upload_weights_result(shard[h], authority, offset, len, AccountLen(d))
    ELSE upload_chunk_result(shard[h], authority, offset, len, AccountLen(d))

\* Outcome of finalize(expected) by `authority` with header h and data d
FinalizeResult(h, d, authority, expected) ==
    finalize_result(shard[h], authority, FinalizedError, RegionFits(h, d),
                    Hash(DataRegion(h, d)), expected)

\* C5 (as stated): once finalize has succeeded on a shard, every later
\* finalize on that shard is rejected as already finalized.
C5_LaterFinalizeAlreadyFinalized ==
    [][\A h \in ShardIds :
         (shard[h].allocated /\ shard[h].finalized
          /\ last'.op = "finalize" /\ last'.shard = h)
            => last'.err = FinalizedError]_vars

\* C5 (amended): finalize succeeds only on a shard that is not finalized and
\* turns the flag on; on a finalized shard the flag stays on, and every later
\* finalize or write_chunk through that shard's header is rejected: as
\* already finalized when the caller is the authority, as unauthorized
\* otherwise.
C5_FinalizeOnce ==
    [][\A h \in ShardIds :
         /\ (last'.op = "finalize" /\ last'.shard = h /\ last'.err = Ok)
               => ~shard[h].finalized /\ shard'[h].finalized
         /\ (shard[h].allocated /\ shard[h].finalized)
               => /\ shard'[h].finalized
                  /\ (last'.shard = h /\ last'.op \in {"finalize", "write_chunk"})
                        => last'.err = IF last'.key = shard[h].authority
                                       THEN FinalizedError
                                       ELSE "Unauthorized"]_vars

C5_Witness ==
    \E h \in ShardIds :
        /\ shard[h].finalized
        /\ last.op = "finalize" /\ last.shard = h /\ last.data = h
        /\ last.match /\ last.key = shard[h].authority
        /\ last.err = FinalizedError

\* The end of the highest byte range written into a data region
HighEnd(ranges) == IF ranges = {} THEN 0 ELSE Greatest({r[2] : r \in ranges})

\* C6: finalize succeeds only if every byte of [0, data_size) has been
\* written by some accepted write_chunk: a finalized shard whose
\* bytes_written is the high-water mark of the chunks written into its own
\* data region has had every byte of the range written.
C6_FinalizedFullyWritten ==
    \A h \in ShardIds :
        (/\ shard[h].allocated /\ shard[h].finalized
         /\ shard[h].bytes_written = HighEnd(written[h]))
            => FullyWritten(written[h], shard[h].data_size)

\* C7: a finalized shard's data_hash is the SHA-256 of the shard's current
\* content over [0, data_size).
C7_FinalizedHashIsContentHash ==
    \A h \in ShardIds :
        (shard[h].allocated /\ shard[h].finalized)
            => shard[h].data_hash = Hash(Prefix(shard_data[h], shard[h].data_size))

\* C8: write_chunk(offset, bytes) on a shard (header and data account of the
\* same shard) is accepted iff the shard is not finalized, the caller is its
\* authority, bytes.len() <= MAX_CHUNK_SIZE and offset + bytes.len() <=
\* data_size; a rejection names a condition the call violates.
C8_WriteChunkAcceptance ==
    \A h \in ShardIds : shard[h].allocated =>
        \A a \in Uploaders, o \in Offsets, c \in Chunks :
            LET err == WriteChunkResult(h, h, a, o, c.len)
                open == ~shard[h].finalized
                authorised == a = shard[h].authority
                small == c.len <= MAX_CHUNK_SIZE
                inside == o + c.len <= shard[h].data_size
            IN  /\ (err = Ok) <=> (open /\ authorised /\ small /\ inside)
                /\ err = FinalizedError => ~open
                /\ err = "Unauthorized" => ~authorised
                /\ err = "ChunkTooLarge" => ~small
                /\ err = "ChunkOutOfBounds" => ~inside
                /\ err \in {Ok, FinalizedError, "Unauthorized", "ChunkTooLarge",
                            "ChunkOutOfBounds"}

C8_Witness ==
    /\ scope = "upload_weights"
    /\ last.op = "write_chunk" /\ last.shard = last.data
    /\ last.err = "ChunkTooLarge"

\* C9 (as stated): finalize with an expected_hash that differs from the hash
\* of the content is rejected with HashMismatch (read for the shard's
\* authority calling on its own, not yet finalized shard).
C9_WrongHashIsHashMismatch ==
    [][\A h \in ShardIds :
         (/\ last'.op = "finalize" /\ last'.shard = h /\ last'.data = h
          /\ ~last'.match
          /\ last'.key = shard[h].authority
          /\ ~shard[h].finalized)
            => last'.err = "HashMismatch"]_vars

\* C9 (amended): finalize with an expected_hash that differs from the hash of
\* the content is rejected and changes no record; when the caller is the
\* authority, the shard is not finalized and its upload is complete, the
\* rejection is HashMismatch, and afterwards a write_chunk and a finalize
\* with the correct hash by the authority still succeed.
C9_WrongHashRejected ==
    [][\A h, d \in ShardIds :
         (last'.op = "finalize" /\ last'.shard = h /\ last'.data = d
          /\ ~last'.match)
            => /\ last'.err # Ok
               /\ records' = records
               /\ (/\ last'.key = shard[h].authority
                   /\ ~shard[h].finalized
                   /\ upload_complete(shard[h])
                   /\ RegionFits(h, d))
                     => /\ last'.err = "HashMismatch"
                        /\ WriteChunkResult(h, h, shard[h].authority, 0, 1) = Ok
                        /\ FinalizeResult(h, h, shard[h].authority,
                                          Hash(DataRegion(h, h))) = Ok]_vars

C9_Witness ==
    \E h \in ShardIds :
        /\ last.op = "finalize" /\ last.shard = h /\ last.data = h
        /\ last.err = "HashMismatch"
        /\ ~shard[h].finalized /\ shard[h].data_hash = ZeroHash
        /\ shard_data[h] # ZeroRegion(shard[h].data_size)

\* C10: when every chunk accepted for a shard carried the target's bytes for
\* its own range and the chunks together cover [0, data_size), the content
\* equals the target and bytes_written equals data_size, whatever the order
\* and the repetitions; applying an in-bounds chunk a second time changes
\* neither the content nor bytes_written.
C10_RetrySafe ==
    \A h \in ShardIds : shard[h].allocated =>
        /\ (faithful[h] /\ FullyWritten(written[h], shard[h].data_size))
              => /\ shard_data[h] = TargetBlob(shard[h].data_size)
                 /\ shard[h].bytes_written = shard[h].data_size
        /\ \A o \in Offsets, c \in SmallChunks :
              o + c.len <= shard[h].data_size =>
                 LET once == CopyFromSlice(shard_data[h], o, c)
                     mark == HighWater(shard[h].bytes_written, o + c.len)
                 IN  /\ CopyFromSlice(once, o, c) = once
                     /\ HighWater(mark, o + c.len) = mark

C10_Witness ==
    \E h \in ShardIds :
        /\ shard[h].allocated /\ shard[h].data_size = 2
        /\ faithful[h] /\ FullyWritten(written[h], shard[h].data_size)
        /\ shard_data[h] = TargetBlob(shard[h].data_size)
        /\ last.op = "write_chunk" /\ last.err = Ok /\ last.shard = h

\* The manifest a session was created against (none: the default record)
ManifestOf(s) ==
    IF session[s].model \in ManifestIds THEN manifest[session[s].model]
    ELSE DefaultManifest

\* C11: run_inference succeeds only in a state where the manifest of the
\* session (an existing manifest record) is marked ready, and with a manifest
\* that is not ready the call on an Active session with both inputs ready is
\* rejected with ModelNotReady.
C11_InferenceNeedsReadyModel ==
    [][\A s \in SessionIds :
         (/\ last'.op = "run_inference" /\ last'.acct = s
          /\ SessionExists(s) /\ ManifestOf(s).disc
          /\ session[s].status = STATUS_ACTIVE
          /\ input_buffer[s].p1_ready /\ input_buffer[s].p2_ready)
            => /\ last'.err = Ok => ManifestOf(s).ready
               /\ ~ManifestOf(s).ready => last'.err = "ModelNotReady"]_vars

\* C14: each successful run_inference stores the compressed snapshot of the
\* frame it produced in the ring-buffer slot (total_frames before the call)
\* mod 256, and the buffer holds the snapshot of every frame f of the last
\* min(n, 256) frames in slot (f - 1) mod 256.
C14_SnapshotStored ==
    [][\A s \in SessionIds :
         (last'.op = "run_inference" /\ last'.acct = s /\ last'.err = Ok)
            => /\ SlotAt(frame_log'[s], frame_log[s].total_frames % RING_BUFFER_SIZE)
                    = compress_frame(session'[s].frame, session'[s].players,
                                     session'[s].stage, input_buffer[s])
               /\ \A f \in 1..session'[s].frame :
                     f + RING_BUFFER_SIZE > session'[s].frame
                        => SlotAt(frame_log'[s], (f - 1) % RING_BUFFER_SIZE).frame = f]_vars

\* The ready flag and the sample slot of player k in an input record
ReadyFlag(ib, k) == IF k = 1 THEN ib.p1_ready ELSE ib.p2_ready
Sample(ib, k) == IF k = 1 THEN ib.player1 ELSE ib.player2

\* C15: after every successful submit_input by player P, P's ready flag is
\* set, P's slot holds the submitted sample and the record's frame number is
\* session.frame + 1; if the record's frame number differed before the call
\* the other player's flag is cleared (never P's), otherwise the other
\* player's flag is unchanged; the other player's sample is unchanged.
C15_SubmitInputEffect ==
    [][\A s \in SessionIds :
         (last'.op = "submit_input" /\ last'.acct = s /\ last'.err = Ok)
            => LET P == SlotOf(session[s], last'.key)
                   other == 3 - P
                   before == input_buffer[s]
                   after == input_buffer'[s]
               IN  /\ ReadyFlag(after, P)
                   /\ Sample(after, P) = last'.sample
                   /\ after.frame = session[s].frame + 1
                   /\ Sample(after, other) = Sample(before, other)
                   /\ ReadyFlag(after, other) =
                         IF before.frame # session[s].frame + 1 THEN FALSE
                         ELSE ReadyFlag(before, other)]_vars

\* an accepted submit_input that found a stale frame number and cleared the
\* flag the other player had set
C15_Witness ==
    \E s \in SessionIds :
        /\ last.op = "submit_input" /\ last.acct = s /\ last.err = Ok
        /\ last.sample = JumpLeftInput
        /\ session[s].frame >= 1
        /\ input_buffer[s].frame = session[s].frame + 1
        /\ ReadyFlag(input_buffer[s], SlotOf(session[s], last.key))
        /\ ~ReadyFlag(input_buffer[s], 3 - SlotOf(session[s], last.key))

\* C16: on an existing session submit_input is rejected with SessionNotActive
\* unless the status is Active (in WaitingPlayers and in Ended), and with
\* UnauthorizedPlayer when the session is Active and the submitting identity
\* is neither player1 nor player2; accepted or rejected, submit_input never
\* modifies Session State.
C16_SubmitInputRejections ==
    [][\A s \in SessionIds :
         (last'.op = "submit_input" /\ last'.acct = s /\ SessionExists(s))
            => /\ session[s].status # STATUS_ACTIVE
                     => last'.err = "SessionNotActive"
               /\ (session[s].status = STATUS_ACTIVE
                   /\ last'.key \notin {session[s].player1, session[s].player2})
                     => last'.err = "UnauthorizedPlayer"
               /\ last'.err \in {Ok, "SessionNotActive", "UnauthorizedPlayer"}
               /\ session' = session]_vars

C16_Witness ==
    \E s \in SessionIds :
        /\ last.op = "submit_input" /\ last.acct = s
        /\ last.err = "SessionNotActive"
        /\ session[s].status = STATUS_WAITING_PLAYERS
        /\ last.key = session[s].player1

\* C17: close succeeds only from Active or WaitingPlayers and only when the
\* caller is player1 or player2 of the session; a caller that is neither is
\* rejected as unauthorized and the status stays as it was (world-model
\* close_session and the END action of session-lifecycle alike).
C17_CloseByParticipantOnly ==
    [][\A s \in SessionIds :
         (last'.op = "close" /\ last'.acct = s /\ SessionExists(s))
            => /\ last'.err = Ok
                     => /\ session[s].status \in {STATUS_ACTIVE, STATUS_WAITING_PLAYERS}
                        /\ last'.key \in {session[s].player1, session[s].player2}
               /\ (session[s].status \in {STATUS_ACTIVE, STATUS_WAITING_PLAYERS}
                   /\ last'.key \notin {session[s].player1, session[s].player2})
                     => /\ last'.err = "UnauthorizedPlayer"
                        /\ session'[s].status = session[s].status]_vars

\* C18: on an existing session join succeeds only from WaitingPlayers and
\* only for an identity other than player1: from any other status it is
\* rejected with InvalidStateTransition, with player1's identity it is
\* rejected with CannotJoinOwnSession; on success player2 is the joiner and
\* the status is Active, and no join had succeeded on the session before
\* (player2 was still unset), so at most one join ever succeeds.
C18_JoinOnce ==
    [][\A s \in SessionIds :
         (last'.op = "join" /\ last'.acct = s /\ SessionExists(s))
            => /\ last'.err =
                    IF session[s].status # STATUS_WAITING_PLAYERS
                    THEN "InvalidStateTransition"
                    ELSE IF last'.key = session[s].player1
                    THEN "CannotJoinOwnSession"
                    ELSE Ok
               /\ last'.err = Ok
                     => /\ session'[s].player2 = last'.key
                        /\ session'[s].status = STATUS_ACTIVE
                        /\ session[s].player2 = DefaultKey
               /\ last'.err # Ok => session'[s] = session[s]]_vars

\* a second join, by a third identity, refused on the Active session
C18_Witness ==
    \E s \in SessionIds :
        /\ last.op = "join" /\ last.acct = s
        /\ last.err = "InvalidStateTransition"
        /\ session[s].status = STATUS_ACTIVE
        /\ last.key \notin {session[s].player1, session[s].player2}

\* C19: after a successful create the status is WaitingPlayers, the frame is
\* 0 and player 1 has 4 stocks; right after a successful join the frame is 0,
\* both players have 4 stocks, player 1 stands at x = -30*256 facing right,
\* player 2 at x = +30*256 facing left, both with y = 0, on_ground = 1,
\* jumps_left = 2 and shield_strength = 60*256, and player 1's character is
\* the one given at create.
C19_StartingState ==
    [][\A s \in SessionIds :
         /\ (last'.op = "create" /\ last'.acct = s /\ last'.err = Ok)
               => /\ session'[s].status = STATUS_WAITING_PLAYERS
                  /\ session'[s].frame = 0
                  /\ session'[s].players[1].stocks = 4
         /\ (last'.op = "join" /\ last'.acct = s /\ last'.err = Ok)
               => LET p1 == session'[s].players[1]
                      p2 == session'[s].players[2]
                  IN  /\ session'[s].frame = 0
                      /\ p1.stocks = 4 /\ p2.stocks = 4
                      /\ p1.x = -7680 /\ p1.facing = 1
                      /\ p2.x = 7680 /\ p2.facing = 0
                      /\ \A p \in {p1, p2} :
                            /\ p.y = 0 /\ p.on_ground = 1 /\ p.jumps_left = 2
                            /\ p.shield_strength = 15360
                      /\ p1.character = session[s].players[1].character]_vars

C19_Witness ==
    \E s \in SessionIds :
        /\ last.op = "join" /\ last.acct = s /\ last.err = Ok
        /\ session[s].status = STATUS_ACTIVE /\ session[s].frame = 0
        /\ session[s].players[1].character = 1
        /\ session[s].players[2].character = 2
        /\ session[s].players[1].x = -7680 /\ session[s].players[2].x = 7680

\* A session has been created once its status has left Created
Created(s) == SessionExists(s) /\ session[s].status # STATUS_CREATED

\* C20: sessions are independent: an operation invoked with the Session
\* State of one session changes no record (Session State, Input Record,
\* Hidden State, Frame Log) that belongs to another created session.
C20_SessionsIndependent ==
    [][\A s, t \in SessionIds :
         (s # t /\ last'.acct = s /\ Created(t))
            => /\ session'[t] = session[t]
               /\ input_buffer'[t] = input_buffer[t]
               /\ hidden_state'[t] = hidden_state[t]
               /\ frame_log'[t] = frame_log[t]]_vars

\* C12: in every reachable state after create, session.frame, the frame tag
\* of the session's Hidden State and (where the program keeps a Frame Log)
\* the total_frames of the session's Frame Log are equal.
C12_FrameCountersAgree ==
    \A s \in SessionIds : Created(s) =>
        /\ hidden_state[s].frame = session[s].frame
        /\ scope \in EcsSessionScopes
              => frame_log[s].total_frames = session[s].frame

\* C13: in every reachable state 0 <= write_index < 256 and
\* write_index == total_frames mod 256.
C13_WriteIndexFollowsTotal ==
    \A s \in SessionIds :
        /\ 0 <= frame_log[s].write_index
        /\ frame_log[s].write_index < RING_BUFFER_SIZE
        /\ frame_log[s].write_index = frame_log[s].total_frames % RING_BUFFER_SIZE

\* C21: player1 and the manifest reference are fixed by create and player2
\* by join: on a created session every create, join, close, submit_input and
\* run_inference call, accepted or rejected, leaves player1 and the manifest
\* reference unchanged, and leaves player2 unchanged once it has been set.
C21_IdentitiesFixed ==
    [][\A s \in SessionIds : Created(s) =>
         /\ session'[s].player1 = session[s].player1
         /\ session'[s].model = session[s].model
         /\ session[s].player2 # DefaultKey
               => session'[s].player2 = session[s].player2]_vars

\* a create refused on a session that has ended with both players set
C21_Witness ==
    \E s \in SessionIds :
        /\ last.op = "create" /\ last.acct = s /\ last.err # Ok
        /\ session[s].status = STATUS_ENDED
        /\ session[s].player1 = "alice" /\ session[s].player2 = "bob"
        /\ session[s].model = "M"

\* The dimensions of a Hidden State header agree with those of a manifest
ShapeMatches(hs, mf) ==
    /\ hs.num_layers = mf.num_layers
    /\ hs.d_inner = mf.d_inner
    /\ hs.d_state = mf.d_state
    /\ hs.data_size = mf.num_layers * mf.d_inner * mf.d_state

\* C22: run_inference on a session whose Hidden State dimensions do not match
\* the manifest handed to the call never produces a frame: it is rejected,
\* and on an Active session with both inputs ready the rejection is
\* HiddenStateMismatch.
C22_ShapeMismatchRejected ==
    [][\A s \in SessionIds, m \in ManifestIds :
         (/\ last'.op = "run_inference" /\ last'.acct = s /\ last'.key = m
          /\ SessionExists(s) /\ manifest[m].disc
          /\ ~ShapeMatches(hidden_state[s], manifest[m]))
            => /\ last'.err # Ok
               /\ (session[s].status = STATUS_ACTIVE
                   /\ input_buffer[s].p1_ready /\ input_buffer[s].p2_ready)
                     => last'.err = "HiddenStateMismatch"]_vars

\* C23: bytes_written of a shard equals the greatest offset + len over the
\* write_chunk calls accepted on that shard header (0 if none); it never
\* decreases, a rejected call does not change it, and
\* 0 <= bytes_written <= data_size after every step.
C23_HighWaterMark ==
    [][\A h \in ShardIds : shard[h].allocated =>
         /\ shard'[h].bytes_written = high_end'[h]
         /\ shard'[h].bytes_written >= shard[h].bytes_written
         /\ last'.err # Ok => shard'[h].bytes_written = shard[h].bytes_written
         /\ 0 <= shard'[h].bytes_written
         /\ shard'[h].bytes_written <= shard'[h].data_size]_vars

\* a header that reached data_size, after a chunk accepted on it that went
\* to the data account of the other shard
C23_Witness ==
    \E h \in ShardIds :
        /\ last.op = "write_chunk" /\ last.err = Ok
        /\ last.shard = h /\ last.data # h
        /\ shard[h].data_size > 0
        /\ shard[h].bytes_written = shard[h].data_size
        /\ high_end[h] = shard[h].data_size

RECURSIVE RowDot(_, _, _, _, _)
RowDot(weights, input, row, cols, n) ==
    IF n = 0 THEN 0
    ELSE RowDot(weights, input, row, cols, n - 1)
            + as_i8(At(weights, row * cols + n - 1)) * At(input, n - 1)

\* C25: for every matrix shape (cols below 4 and cols not divisible by 4
\* included) the 4x-unrolled, the packed-load and the scalar matmul_i8 each
\* return for every row the sum over j of int8(weights[row*cols + j]) *
\* int8(input[j]), so the three results are identical.
C25_MatmulAgree ==
    kernel.op = "matmul_i8" =>
        \A i \in 1..kernel.rows :
            LET sum == RowDot(kernel.weights, kernel.input, i - 1, kernel.cols,
                              kernel.cols)
            IN  /\ kernel.unrolled[i] = sum
                /\ kernel.packed[i] = sum
                /\ kernel.scalar[i] = sum

\* two rows of five columns (one full group and a remainder) with a negative
\* and a positive row sum
C25_Witness ==
    /\ kernel.op = "matmul_i8"
    /\ kernel.rows = 2 /\ kernel.cols = 5
    /\ kernel.unrolled[1] < 0 /\ kernel.unrolled[2] > 0
    /\ kernel.packed = kernel.unrolled /\ kernel.scalar = kernel.unrolled

\* C26: a channel whose input x[i] is 0 gets output y[i] = 0 whatever the
\* hidden state, dt, a and the exp-neg table hold, while each of its hidden
\* entries still decays to (a_bar * h) >> 8.
C26_ZeroInputChannel ==
    kernel.op = "selective_scan_step" =>
        \A i \in 0..(kernel.d_inner - 1) :
            At(kernel.x_ssm, i) = 0 =>
                /\ At(kernel.y_ssm, i) = 0
                /\ \A j \in 0..(kernel.d_state - 1) :
                      At(kernel.h, i * kernel.d_state + j) =
                          shr(a_bar(At(kernel.dt, i), as_i8(At(kernel.a_log, i)),
                                    kernel.lut_data)
                                  * At(kernel.h_before, i * kernel.d_state + j), 8)

\* a zero-input channel whose hidden entry decays to a smaller nonzero value,
\* next to a channel with nonzero input and nonzero output
C26_Witness ==
    /\ kernel.op = "selective_scan_step"
    /\ kernel.d_inner >= 2
    /\ At(kernel.x_ssm, 0) = 0 /\ At(kernel.y_ssm, 0) = 0
    /\ At(kernel.h_before, 0) = 127
    /\ At(kernel.h, 0) > 0 /\ At(kernel.h, 0) < 127
    /\ At(kernel.x_ssm, 1) # 0 /\ At(kernel.y_ssm, 1) # 0

\* C27: when every x[i] is nonzero and the hidden state is all zero before the
\* call, at least one y[i] is nonzero after it.
C27_NonzeroInputNonzeroOutput ==
    (/\ kernel.op = "selective_scan_step"
     /\ \A i \in DOMAIN kernel.x_ssm : kernel.x_ssm[i] # 0
     /\ \A k \in DOMAIN kernel.h_before : kernel.h_before[k] = 0)
        => \E i \in DOMAIN kernel.y_ssm : kernel.y_ssm[i] # 0

\* C28: the stored entry is clamp((a_bar*h + dt*b) >> 8, -128, 127) and the
\* output is clamp((sum over j of c_j * h'[i][j]) >> 8, -128, 127) with h' the
\* stored, clamped entry.
C28_OutputFromStoredState ==
    kernel.op = "selective_scan_step" =>
        \A i \in 0..(kernel.d_inner - 1) :
            /\ \A j \in 0..(kernel.d_state - 1) :
                  At(kernel.h, i * kernel.d_state + j) =
                      clamp(shr(a_bar(At(kernel.dt, i), as_i8(At(kernel.a_log, i)),
                                      kernel.lut_data)
                                    * At(kernel.h_before, i * kernel.d_state + j)
                                  + At(kernel.dt, i) * b_val(At(kernel.x_ssm, i), j), 8),
                            -128, 127)
            /\ At(kernel.y_ssm, i) =
                  clamp(shr(SeqSum([n \in 1..kernel.d_state |->
                                c_val(At(kernel.x_ssm, i), n - 1, kernel.d_state)
                                    * At(kernel.h, i * kernel.d_state + n - 1)]), 8),
                        -128, 127)

ScaledClamp(value, scale) ==
    IF scale = 0 THEN 0
    ELSE IF value >= 8388608 THEN 127
    ELSE IF value <= -8388608 THEN -128
    ELSE IF abs(value) < 32768 \/ scale < 256
         THEN clamp(shr(value * scale, 16), -128, 127)
    ELSE IF value > 0 THEN 127 ELSE -128

C31_SaturatingElementwise ==
    kernel.op = "elementwise" =>
        /\ \A i \in 1..kernel.n :
              LET exact == kernel.a[i] + kernel.b[i]
                  scaled == (kernel.a[i] * kernel.b[i]) \div (2 ^ kernel.shift)
              IN  /\ kernel.sum[i] =
                        (IF exact > 127 THEN 127 ELSE IF exact < -128 THEN -128 ELSE exact)
                  /\ kernel.product[i] =
                        (IF scaled > 127 THEN 127 ELSE IF scaled < -128 THEN -128
                         ELSE scaled)
                  /\ kernel.sum[i] \in -128..127
                  /\ kernel.product[i] \in -128..127
        /\ (kernel.a = <<100, -100>> /\ kernel.b = <<100, -100>>)
              => kernel.sum = <<127, -128>>
        /\ (kernel.a = <<10, -20>> /\ kernel.b = <<5, -5>> /\ kernel.shift = 4)
              => kernel.product = <<3, 6>>

\* the sum saturates at both ends while the shifted products stay in range
C31_Witness ==
    /\ kernel.op = "elementwise"
    /\ kernel.a = <<100, -100>> /\ kernel.b = <<100, -100>> /\ kernel.shift = 7
    /\ kernel.sum = <<127, -128>>
    /\ kernel.product = <<78, 78>>

\* C32: pack_input returns (stick_x mod 256) << 24 | (stick_y mod 256) << 16 |
\* (c_stick_x mod 256) << 8 | buttons: each field has its own byte, a negative
\* stick never reaches another field, and the four fields can be read back
\* from the word.
C32_PackedInput ==
    kernel.op = "pack_input" =>
        LET byte(v) == IF v < 0 THEN v + 256 ELSE v
            signed(b) == IF b > 127 THEN b - 256 ELSE b
            high == kernel.packed[1]
            low == kernel.packed[2]
        IN  /\ high \in 0..65535 /\ low \in 0..65535
            /\ high = byte(kernel.input.stick_x) * 256 + byte(kernel.input.stick_y)
            /\ low = byte(kernel.input.c_stick_x) * 256 + kernel.input.buttons
            /\ signed(high \div 256) = kernel.input.stick_x
            /\ signed(high % 256) = kernel.input.stick_y
            /\ signed(low \div 256) = kernel.input.c_stick_x
            /\ low % 256 = kernel.input.buttons

\* negative sticks next to a full button byte: 0xFF80FFFF
C32_Witness ==
    /\ kernel.op = "pack_input"
    /\ kernel.input.stick_x = -1 /\ kernel.input.stick_y = -128
    /\ kernel.input.c_stick_x = -1 /\ kernel.input.buttons = 255
    /\ kernel.packed = <<65408, 65535>>

\* channel i of the scan in progress, alone: its own x, dt, a and hidden range
LaneAlone(i) ==
    selective_scan_step(<<At(kernel.x_ssm, i)>>, <<At(kernel.dt, i)>>,
                        [j \in 1..kernel.d_state |->
                            At(kernel.h_before, i * kernel.d_state + j - 1)],
                        <<At(kernel.a_log, i)>>, kernel.lut_data, 1, kernel.d_state)

\* C33: the computation for channel i reads only x[i], dt[i], a[i] and the
\* hidden range of i and writes only that range and y[i]; so whatever the
\* order or interleaving of the channels, the hidden state and y are those of
\* the sequential loop.
C33_ChannelsIndependent ==
    kernel.op = "scan_running" =>
        /\ \A i \in 0..(kernel.d_inner - 1) :
              \* untouched channel: nothing of it was written
              /\ At(kernel.pos, i) = 0 =>
                    /\ At(kernel.y_ssm, i) = 0
                    /\ \A j \in 0..(kernel.d_state - 1) :
                          At(kernel.h, i * kernel.d_state + j) =
                              At(kernel.h_before, i * kernel.d_state + j)
              \* finished channel: what it computes from its own data alone
              /\ At(kernel.pos, i) = kernel.d_state =>
                    /\ At(kernel.y_ssm, i) = LaneAlone(i).y_ssm[1]
                    /\ \A j \in 0..(kernel.d_state - 1) :
                          At(kernel.h, i * kernel.d_state + j) = LaneAlone(i).h[j + 1]
        /\ (\A i \in 0..(kernel.d_inner - 1) : At(kernel.pos, i) = kernel.d_state) =>
              LET start == [kernel EXCEPT !.h = kernel.h_before,
                                          !.pos = [i \in 1..kernel.d_inner |-> 0],
                                          !.y_acc = [i \in 1..kernel.d_inner |-> 0],
                                          !.y_ssm = [i \in 1..kernel.d_inner |-> 0]]
                  loop == RunOrder(start, SequentialOrder(kernel.d_inner, kernel.d_state))
              IN  kernel.h = loop.h /\ kernel.y_ssm = loop.y_ssm

\* a finished scan of three channels that did not run in index order, with
\* different outputs on its channels
C33_Witness ==
    /\ kernel.op = "scan_running"
    /\ kernel.d_inner = 3 /\ kernel.d_state = 2
    /\ \A i \in 0..2 : At(kernel.pos, i) = 2
    /\ kernel.reordered
    /\ At(kernel.y_ssm, 0) # At(kernel.y_ssm, 1)
    /\ kernel.h # kernel.h_before

\* floor(sum of x[i]^2 / n)
MeanSquare(x) ==
    LET RECURSIVE Squares(_)
        Squares(k) == IF k = 0 THEN 0 ELSE Squares(k - 1) + x[k] * x[k]
    IN  Squares(Len(x)) \div Len(x)

\* C36: rmsnorm_int8 on a non-empty vector uses the rsqrt index
\* min(mean_sq, 255*64) / 64 with mean_sq = floor(sum of x[i]^2 / n), which
\* lies in 0..255 (also for all -128), outputs
\* clamp(((x[i]*w[i]*r) * weight_scale) >> 16, -128, 127), and with
\* weight_scale = 256 the 32-bit intermediate does not overflow.
C36_Rmsnorm ==
    kernel.op = "rmsnorm_int8" =>
        LET capped == IF MeanSquare(kernel.x) < 16320 THEN MeanSquare(kernel.x) ELSE 16320
            r == LutByte(kernel.lut_data, RSQRT_OFFSET + kernel.lut_idx)
        IN  /\ kernel.lut_idx = capped \div 64
            /\ kernel.lut_idx \in 0..255
            /\ \A i \in 1..Len(kernel.x) :
                  LET val == kernel.x[i] * kernel.weight[i] * r
                      q == (val * kernel.weight_scale) \div 65536
                  IN  /\ kernel.output[i] =
                            (IF q > 127 THEN 127 ELSE IF q < -128 THEN -128 ELSE q)
                      /\ kernel.weight_scale = 256 =>
                            (val <= 8388607 /\ val >= -8388608)

\* all -128 against weight -128: mean square 16384, index 255, the largest
\* intermediate, saturated output
C36_Witness ==
    /\ kernel.op = "rmsnorm_int8"
    /\ kernel.x = <<-128, -128>> /\ kernel.weight = <<-128, -128>>
    /\ kernel.weight_scale = 256 /\ kernel.lut_data = "ramp"
    /\ kernel.lut_idx = 255
    /\ kernel.output = <<127, 127>>

\* C39: for a channel with x[i] = 0 one step replaces each hidden entry h by
\* (a_bar * h) >> 8; the entry never changes sign, its magnitude never
\* increases, and every nonzero entry, positive or negative, gets strictly
\* closer to 0.
C39_ZeroInputDecay ==
    kernel.op = "selective_scan_step" =>
        \A i \in 0..(kernel.d_inner - 1) :
            At(kernel.x_ssm, i) = 0 =>
                \A j \in 0..(kernel.d_state - 1) :
                    LET before == At(kernel.h_before, i * kernel.d_state + j)
                        after == At(kernel.h, i * kernel.d_state + j)
                    IN  /\ after = shr(a_bar(At(kernel.dt, i), as_i8(At(kernel.a_log, i)),
                                             kernel.lut_data) * before, 8)
                        /\ before * after >= 0
                        /\ abs(after) <= abs(before)
                        /\ before # 0 => abs(after) < abs(before)

\* C38: whenever a session is Active its two players differ, so an accepted
\* submit_input belongs to exactly one player slot and sets exactly one ready
\* flag (the other flag is never raised by the call).
C38_DistinctPlayers ==
    /\ [](\A s \in SessionIds :
              session[s].status = STATUS_ACTIVE
                  => session[s].player1 # session[s].player2)
    /\ [][\A s \in SessionIds :
            (last'.op = "submit_input" /\ last'.acct = s /\ last'.err = Ok)
               => LET is_p1 == last'.key = session[s].player1
                      is_p2 == last'.key = session[s].player2
                      mine == IF is_p1 THEN 1 ELSE 2
                  IN  /\ is_p1 # is_p2
                      /\ ReadyFlag(input_buffer'[s], mine)
                      /\ ReadyFlag(input_buffer'[s], 3 - mine)
                            => ReadyFlag(input_buffer[s], 3 - mine)]_vars

\* the joiner's submission is accepted and only the joiner's flag is set
C38_Witness ==
    \E s \in SessionIds :
        /\ session[s].status = STATUS_ACTIVE
        /\ last.op = "submit_input" /\ last.acct = s /\ last.err = Ok
        /\ last.key = session[s].player2 /\ last.key # session[s].player1
        /\ input_buffer[s].p2_ready /\ ~input_buffer[s].p1_ready

\* C37: in an Active session, once both players have had a submit_input
\* accepted since the last accepted run_inference (or since the join), in
\* either order and however often each repeated it, both ready flags are set
\* and run_inference is accepted; and under fair scheduling of the two
\* players and the cranker an Active session at frame n moves on to a later
\* frame (unless a player closes it first).
C37_HandshakeProgress ==
    /\ [](\A s \in SoloSessions :
              (session[s].status = STATUS_ACTIVE /\ fresh[s] = {1, 2})
                 => /\ input_buffer[s].p1_ready
                    /\ input_buffer[s].p2_ready
                    /\ run_inference_result(session[s], input_buffer[s]) = Ok)
    /\ \A s \in SoloSessions : \A n \in 0..(MaxFrame - 1) :
          (session[s].status = STATUS_ACTIVE /\ session[s].frame = n)
             ~> (session[s].status # STATUS_ACTIVE \/ session[s].frame > n)

\* after a first accepted run_inference both players have submitted again,
\* the joiner last, and both flags are set for the pending frame
C37_Witness ==
    \E s \in SoloSessions :
        /\ session[s].status = STATUS_ACTIVE
        /\ session[s].frame >= 1
        /\ fresh[s] = {1, 2}
        /\ last.op = "submit_input" /\ last.err = Ok
        /\ last.key = session[s].player2
        /\ input_buffer[s].frame = session[s].frame + 1
        /\ input_buffer[s].p1_ready /\ input_buffer[s].p2_ready

\* hidden-state bytes [L * h_per_layer, (L + 1) * h_per_layer) of a buffer
HiddenRange(buffer, config, L) ==
    SubSeq(buffer, L * config.d_inner * config.d_state + 1,
           (L + 1) * config.d_inner * config.d_state)

\* what the k-th iteration of a forward pass computes from the residual
\* vector and the weight slices it was handed and from the hidden-state
\* range of its layer as it was when forward_pass was entered
IterationResult(k) ==
    LET it == kernel.steps[k]
    IN  mamba2_layer_step(it.x_in,
                          HiddenRange(kernel.hidden_before, kernel.config, it.layer_idx),
                          LayerWeights(it, LayerParams(kernel.config, it.layer_idx)),
                          kernel.lut_data, kernel.config)

\* C34: forward_pass takes the layers in increasing index order from 0, the
\* first layer gets the input and each later layer the residual vector the
\* previous one left; the step of layer L changes only the hidden-state
\* range of layer L and computes it from that range alone, so when the pass
\* returns every range has been updated exactly once, and the buffer keeps
\* its length throughout.
C34_LayersInOrderOwnRange ==
    (scope = "forward_pass"
        /\ kernel.op \in {"forward_running", "forward_pass", "forward_panicked"})
    => LET config == kernel.config
           steps == kernel.steps
           done == kernel.layer_idx
       IN  /\ \A k \in 1..Len(steps) : steps[k].layer_idx = k - 1
           /\ steps[1].x_in = kernel.input
           /\ \A k \in 2..Len(steps) : steps[k].x_in = IterationResult(k - 1).x
           /\ Len(kernel.hidden_state) = Len(kernel.hidden_before)
           /\ \A L \in 0..(config.num_layers - 1) :
                 HiddenRange(kernel.hidden_state, config, L) =
                     IF L < done THEN IterationResult(L + 1).h
                     ELSE HiddenRange(kernel.hidden_before, config, L)
           /\ kernel.op = "forward_pass"
                 => /\ done = config.num_layers
                    /\ Len(steps) = config.num_layers
                    /\ kernel.x = IterationResult(Len(steps)).x
           /\ kernel.op = "forward_running" => done = Len(steps)

\* a pass over two or more layers has returned and every layer's range of
\* the hidden state differs from what it was before the pass
C34_Witness ==
    /\ scope = "forward_pass"
    /\ kernel.op = "forward_pass"
    /\ kernel.config.num_layers >= 2
    /\ kernel.x # kernel.input
    /\ \A L \in 0..(kernel.config.num_layers - 1) :
          HiddenRange(kernel.hidden_state, kernel.config, L)
              # HiddenRange(kernel.hidden_before, kernel.config, L)

\* C35: the in-projection and out-projection slices handed to the step of
\* layer L are the 2*d_inner*d_model bytes and the following d_model*d_inner
\* bytes at offset L * (2*d_inner*d_model + d_model*d_inner) of shard 0
\* followed by shard 1, whatever the length of shard 0.
C35_WeightsFromConcatenation ==
    (scope = "forward_pass"
        /\ kernel.op \in {"forward_running", "forward_pass", "forward_panicked"})
    => LET config == kernel.config
           in_proj_size == 2 * config.d_inner * config.d_model
           out_proj_size == config.d_model * config.d_inner
           logical == kernel.weight_data[1] \o kernel.weight_data[2]
       IN  \A k \in 1..Len(kernel.steps) :
               LET it == kernel.steps[k]
                   offset == it.layer_idx * (in_proj_size + out_proj_size)
               IN  /\ it.in_proj = SubSeq(logical, offset + 1, offset + in_proj_size)
                   /\ it.out_proj = SubSeq(logical, offset + in_proj_size + 1,
                                           offset + in_proj_size + out_proj_size)

====
